---------------------------- MODULE Spec2Model ----------------------------
(***************************************************************************)
(* A model of delta's painter (src/src/paint.rs): the style                *)
(* superimposition algorithm, the line-number gutter formatter, the line   *)
(* renderer and the Painter's buffer / flush / emit protocol.              *)
(*                                                                         *)
(* Text is modelled as a sequence of characters, each character a          *)
(* one-character string.  A style section is a pair <<style, text>>.       *)
(***************************************************************************)
EXTENDS Integers, Sequences, FiniteSets, TLC

VARIABLES
    \* ---- superimpose_style_sections, called on its own ----
    sections_1,     \* the syntax partition handed to the call
    sections_2,     \* the diff partition handed to the call
    call_true_color,\* the true_color flag handed to the call
    superimposed,   \* what the call produced (a result, or a panic)
    s_pc            \* "ready" before the call, "done" after it

svars == <<sections_1, sections_2, call_true_color, superimposed, s_pc>>

VARIABLES
    \* ---- format_line_number, called on its own ----
    f_number,       \* the optional line number handed to the call
    f_text,         \* the number text the call returned
    f_pc            \* "ready" before the call, "done" after it

fvars == <<f_number, f_text, f_pc>>

VARIABLES
    \* ---- the Painter ----
    opt,                \* the command line options the configuration is made from
    minus_lines,        \* the buffered minus lines
    plus_lines,         \* the buffered plus lines
    output_buffer,      \* the output buffer
    minus_line_number,  \* the minus line counter
    plus_line_number,   \* the plus line counter
    writer,             \* what the successful writes have put into the sink
    write_failed,       \* a write has failed, leaving an unknown part of the
                        \* buffer in the sink
    aborted,            \* "no", or why the process panicked
    \* ---- history, for the statements about the Painter ----
    flushed             \* one entry per line handed to paint_lines by a flush so far

pvars == <<opt, minus_lines, plus_lines, output_buffer, minus_line_number,
           plus_line_number, writer, write_failed, aborted, flushed>>

VARIABLES
    \* ---- one function of paint.rs, called on its own ----
    call            \* the function, its arguments, what it returned, and
                    \* "ready" before the call, "done" after it

cvars == <<call>>

vars == <<svars, fvars, pvars, cvars>>

(***************************************************************************)
(* Bounds of the model.                                                    *)
(***************************************************************************)
MaxLen == 3          \* characters in one partition handed to superimpose
MaxLineNumber == 10000   \* the largest line number handed to format_line_number
MaxPushed == 3       \* lines pushed into the Painter's buffers in one run
MaxFormatLen == 6    \* characters in a gutter format
MaxComposedLen == 4  \* characters and escape sequences in a composed line
MaxLines == 2        \* lines handed to get_syntax_style_sections_for_lines
MaxConfigEntries == 3    \* entries in a git config handed to set_options

(***************************************************************************)
(* Generic helpers.                                                        *)
(***************************************************************************)
Min(a, b) == IF a <= b THEN a ELSE b

RECURSIVE SeqsUpTo(_, _)
\* all sequences over S of length at most n
SeqsUpTo(S, n) ==
    IF n = 0 THEN {<<>>}
    ELSE LET shorter == SeqsUpTo(S, n - 1)
         IN  shorter \cup {Append(s, x) : s \in {t \in shorter : Len(t) = n - 1}, x \in S}

RECURSIVE Flatten(_)
\* the concatenation of a sequence of sequences
Flatten(ss) == IF ss = <<>> THEN <<>> ELSE Head(ss) \o Flatten(Tail(ss))

(***************************************************************************)
(* Styles.                                                                 *)
(***************************************************************************)
NL == "\n"

\* syntect::highlighting::Style: foreground, background, font_style
SyntectStyle(fg, bg, font) == [foreground |-> fg, background |-> bg, font_style |-> font]

\* SyntectStyle::default(), the "no annotation" sentinel of config
null_syntect_style == SyntectStyle("DEFAULT_FG", "DEFAULT_BG", "EMPTY")

\* the syntax style of the tests of superimpose_style_sections
SYNTAX_STYLE == SyntectStyle("BLACK", "BLACK", "BOLD")

\* Option<ansi_term::Color>: no colour, a named colour, or what
\* to_ansi_color returns
NoColor == <<"None">>

Color(name) == <<"Color", name>>

\* ansi_term::Style: attrs is the set of the attribute flags that are set
AnsiTermStyle(fg, bg, attrs) == [foreground |-> fg, background |-> bg, attrs |-> attrs]

\* crate::style::Style
Style(ansi, emph, synhl) ==
    [ansi_term_style       |-> ansi,
     is_emph               |-> emph,
     is_omitted            |-> FALSE,
     is_raw                |-> FALSE,
     is_syntax_highlighted |-> synhl,
     decoration_style      |-> "NoDecoration"]

SYNTAX_HIGHLIGHTED_STYLE ==
    Style(AnsiTermStyle(Color("White"), Color("White"), {"underline"}), FALSE, TRUE)

NON_SYNTAX_HIGHLIGHTED_STYLE ==
    Style(AnsiTermStyle(Color("White"), Color("White"), {"underline"}), FALSE, FALSE)

\* bat::terminal::to_ansi_color: the terminal colour of a syntax colour
\* under the colour-capability flag (24-bit colour, or the nearest of the
\* 256-colour palette)
to_ansi_color(color, true_color) ==
    IF true_color THEN <<"RGB", color>> ELSE <<"Fixed", color>>

(***************************************************************************)
(* mod superimpose_style_sections                                          *)
(***************************************************************************)
RECURSIVE explode_last_section_only(_)
explode_last_section_only(style_sections) ==
    IF style_sections = <<>> THEN <<>>
    ELSE LET style == Head(style_sections)[1]
             s     == Head(style_sections)[2]
         IN  IF Len(style_sections) > 1 THEN explode_last_section_only(Tail(style_sections))
             ELSE [i \in 1..Len(s) |-> <<style, s[i]>>]

RECURSIVE explode(_)
\* one (style, char) per character of every section, in order
explode(style_sections) ==
    IF style_sections = <<>> THEN <<>>
    ELSE LET style == Head(style_sections)[1]
             s     == Head(style_sections)[2]
         IN  [i \in 1..Len(s) |-> <<style, s[i]>>] \o explode(Tail(style_sections))

\* Iterator::zip: pairs up to the end of the shorter sequence
zip(xs, ys) == [i \in 1..Min(Len(xs), Len(ys)) |-> <<xs[i], ys[i]>>]

\* the pairs whose two characters differ: superimpose panics on the first
MismatchPositions(style_section_pairs) ==
    {i \in 1..Len(style_section_pairs) :
        style_section_pairs[i][1][2] # style_section_pairs[i][2][2]}

\* superimpose: ((syntax_style, style), char) per position, or a panic
superimpose(style_section_pairs) ==
    IF MismatchPositions(style_section_pairs) # {}
    THEN [panicked |-> TRUE, value |-> <<>>]
    ELSE [panicked |-> FALSE,
          value |-> [i \in 1..Len(style_section_pairs) |->
                       <<<<style_section_pairs[i][1][1], style_section_pairs[i][2][1]>>,
                         style_section_pairs[i][1][2]>>]]

make_superimposed_style_keep_fg(style_pair, true_color, null_style) == style_pair[2]

\* the closure make_superimposed_style of coalesce
make_superimposed_style(style_pair, true_color, null_style) ==
    LET syntect_style == style_pair[1]
        style         == style_pair[2]
    IN  IF style.is_syntax_highlighted /\ syntect_style # null_style
        THEN [style EXCEPT !.ansi_term_style.foreground =
                               to_ansi_color(syntect_style.foreground, true_color)]
        ELSE style

style_pair_changed_diff_only(style_pair, current_style_pair) ==
    style_pair[2] # current_style_pair[2]

\* the test `style_pair != current_style_pair` of the coalesce loop
style_pair_changed(style_pair, current_style_pair) ==
    style_pair # current_style_pair

strip_no_newline(current_string) == current_string

RECURSIVE strip_all_newlines(_)
strip_all_newlines(current_string) ==
    IF Len(current_string) > 0 /\ current_string[Len(current_string)] = NL
    THEN strip_all_newlines(SubSeq(current_string, 1, Len(current_string) - 1))
    ELSE current_string

\* the removal of the terminating newline from the last run of coalesce
strip_newline(current_string) ==
    IF Len(current_string) > 0 /\ current_string[Len(current_string)] = NL
    THEN SubSeq(current_string, 1, Len(current_string) - 1)
    ELSE current_string

RECURSIVE coalesce_loop(_, _, _, _, _)
\* the for loop of coalesce from position i on; st holds coalesced,
\* current_string and current_style_pair
coalesce_loop(style_sections, i, st, true_color, null_style) ==
    IF i > Len(style_sections) THEN st
    ELSE LET mk(p)      == make_superimposed_style(p, true_color, null_style)
             style_pair == style_sections[i][1]
             c          == style_sections[i][2]
             pushed     == style_pair_changed(style_pair, st.current_style_pair)
             st1 == IF pushed
                    THEN [coalesced |-> Append(st.coalesced,
                                               <<mk(st.current_style_pair), st.current_string>>),
                          current_string |-> <<>>,
                          current_style_pair |-> style_pair]
                    ELSE st
         IN  coalesce_loop(style_sections, i + 1,
                           [st1 EXCEPT !.current_string = Append(st1.current_string, c)],
                           true_color, null_style)

coalesce_drops_empty_run(style_sections, true_color, null_style) ==
    IF style_sections = <<>> THEN <<>>
    ELSE LET mk(p) == make_superimposed_style(p, true_color, null_style)
             st == coalesce_loop(style_sections, 2,
                                 [coalesced |-> <<>>,
                                  current_string |-> <<style_sections[1][2]>>,
                                  current_style_pair |-> style_sections[1][1]],
                                 true_color, null_style)
         IN  IF strip_newline(st.current_string) = <<>> THEN st.coalesced
             ELSE Append(st.coalesced,
                         <<mk(st.current_style_pair), strip_newline(st.current_string)>>)

\* coalesce: one (style, text) run per block of equal style pairs
coalesce(style_sections, true_color, null_style) ==
    IF style_sections = <<>> THEN <<>>
    ELSE LET mk(p) == make_superimposed_style(p, true_color, null_style)
             st == coalesce_loop(style_sections, 2,
                                 [coalesced |-> <<>>,
                                  current_string |-> <<style_sections[1][2]>>,
                                  current_style_pair |-> style_sections[1][1]],
                                 true_color, null_style)
         IN  Append(st.coalesced,
                    <<mk(st.current_style_pair), strip_newline(st.current_string)>>)

\* superimpose_style_sections: the runs, or a panic
superimpose_style_sections(secs_1, secs_2, true_color, null_style) ==
    LET zipped == superimpose(zip(explode(secs_1), explode(secs_2)))
    IN  IF zipped.panicked THEN zipped
        ELSE [panicked |-> FALSE,
              value |-> coalesce(zipped.value, true_color, null_style)]


(***************************************************************************)
(* The line-number gutter.                                                 *)
(***************************************************************************)
\* Option<usize>
None == <<>>

Some(x) == <<x>>

Blanks(n) == [i \in 1..n |-> " "]

DigitChars == <<"0", "1", "2", "3", "4", "5", "6", "7", "8", "9">>

RECURSIVE Decimal(_)
\* the decimal digits of x, as Display for usize writes them
Decimal(x) ==
    IF x < 10 THEN <<DigitChars[x + 1]>>
    ELSE Append(Decimal(x \div 10), DigitChars[(x % 10) + 1])

\* the width of the format string "{:^4}"
NumberWidth == 4

FormatCenteredOddBlankLeft(text, width) ==
    IF Len(text) >= width THEN text
    ELSE LET padding == width - Len(text)
         IN  [i \in 1..((padding + 1) \div 2) |-> " "] \o text
             \o [i \in 1..(padding \div 2) |-> " "]

\* format!("{:^width}", x): centred in at least width columns, the odd
\* blank on the right; a text wider than the width is written as it is
FormatCentered(text, width) ==
    IF Len(text) >= width THEN text
    ELSE LET padding == width - Len(text)
         IN  Blanks(padding \div 2) \o text \o Blanks((padding + 1) \div 2)

format_line_number(line_number) ==
    IF line_number # None
    THEN FormatCentered(Decimal(line_number[1]), NumberWidth)
    ELSE Blanks(4)


\* LINE_NUMBER_REGEXP, (?P<before>.*)(?P<ln>%ln)(?P<after>.*): the
\* positions at which the placeholder %ln starts in number_format
PlaceholderStarts(number_format) ==
    {i \in 1..(Len(number_format) - 2) :
        /\ number_format[i] = "%"
        /\ number_format[i + 1] = "l"
        /\ number_format[i + 2] = "n"}

\* the characters from..to of text are ones the `.` of a regular
\* expression matches: any character but the newline
DotMatches(text, from, to) == \A k \in from..to : text[k] # NL

Lowest(set) == CHOOSE i \in set : \A j \in set : i <= j

Highest(set) == CHOOSE i \in set : \A j \in set : j <= i

\* LINE_NUMBER_REGEXP.captures(number_format): the leftmost match, both
\* .* greedy: from the earliest position from which a placeholder is
\* reached without crossing a newline, up to the last such placeholder,
\* and on to the end of its line
captures(number_format) ==
    LET starts == PlaceholderStarts(number_format)
    IN  IF starts = {} THEN None
        ELSE LET from == Lowest({s \in 1..Len(number_format) :
                                    \E p \in starts :
                                       s <= p /\ DotMatches(number_format, s, p - 1)})
                 at   == Highest({p \in starts :
                                    from <= p /\ DotMatches(number_format, from, p - 1)})
                 to   == Highest({e \in (at + 2)..Len(number_format) :
                                    DotMatches(number_format, at + 3, e)})
             IN  Some([before |-> SubSeq(number_format, from, at - 1),
                       ln     |-> SubSeq(number_format, at, at + 2),
                       after  |-> SubSeq(number_format, at + 3, to)])

\* get_line_number_components: (before, number, after), or the panic of
\* the unwrap when the regular expression does not match
get_line_number_components(number, number_format) ==
    LET caps == captures(number_format)
    IN  IF caps = None
        THEN [panicked |-> TRUE, before |-> <<>>, number |-> <<>>, after |-> <<>>]
        ELSE [panicked |-> FALSE,
              before   |-> caps[1].before,
              number   |-> format_line_number(number),
              after    |-> caps[1].after]

has_line_numbers_minus_only(line_numbers) == line_numbers[1] # None

has_line_numbers(line_numbers) ==
    LET minus == line_numbers[1]
        plus  == line_numbers[2]
    IN  IF minus # None THEN TRUE
        ELSE IF plus # None THEN TRUE ELSE FALSE

(***************************************************************************)
(* Terminal output.  The output buffer and the sink hold tokens: a         *)
(* character <<"c", ch>>, the escape sequence that switches a style on     *)
(* <<"sgr", ansi_term_style>>, the reset ESC[0m and the erase ESC[K.       *)
(***************************************************************************)
Ch(c) == <<"c", c>>

Chars(text) == [i \in 1..Len(text) |-> Ch(text[i])]

ANSI_CSI_ERASE_IN_LINE == <<"el", "ESC[K">>

ANSI_SGR_RESET == <<"reset", "ESC[0m">>

\* ansi_term::Style::new()
PlainAnsi == AnsiTermStyle(NoColor, NoColor, {})

\* ansi_term::Style::prefix: nothing for a plain style
AnsiPrefix(ansi) == IF ansi = PlainAnsi THEN <<>> ELSE <<<<"sgr", ansi>>>>

\* ansi_term::Style::paint
Paint(ansi, text) == [style |-> ansi, string |-> text]

\* ansi_term::difference::Difference::between, written out as the escape
\* sequences that lead from the style first to the style next
AnsiBetween(first, next) ==
    IF first = next THEN <<>>
    ELSE IF first = PlainAnsi THEN AnsiPrefix(next)
    ELSE IF \/ next = PlainAnsi
            \/ first.attrs \ next.attrs # {}
            \/ first.foreground # NoColor /\ next.foreground = NoColor
            \/ first.background # NoColor /\ next.background = NoColor
         THEN <<ANSI_SGR_RESET>> \o AnsiPrefix(next)
    ELSE AnsiPrefix(AnsiTermStyle(
             IF next.foreground # first.foreground THEN next.foreground ELSE NoColor,
             IF next.background # first.background THEN next.background ELSE NoColor,
             next.attrs \ first.attrs))

\* Display for ansi_term::ANSIStrings
ANSIStrings(strings) ==
    IF strings = <<>> THEN <<>>
    ELSE AnsiPrefix(strings[1].style) \o Chars(strings[1].string)
         \o Flatten([i \in 1..(Len(strings) - 1) |->
                       AnsiBetween(strings[i].style, strings[i + 1].style)
                       \o Chars(strings[i + 1].string)])
         \o (IF strings[Len(strings)].style # PlainAnsi THEN <<ANSI_SGR_RESET>> ELSE <<>>)

(***************************************************************************)
(* The line renderer.                                                      *)
(***************************************************************************)
style_sections_more_than_one_section(sections) == Len(sections) > 1

style_sections_contain_more_than_one_style(sections) ==
    IF Len(sections) > 1
    THEN LET first_style == sections[1][1]
         IN  \E i \in 1..Len(sections) : sections[i][1] # first_style
    ELSE FALSE

\* the six painted strings paint_lines pushes for the gutter, from the
\* components of the two formats; a panic if either had none
PaintedComponents(minus, plus, cfg) ==
    IF minus.panicked \/ plus.panicked
    THEN [panicked |-> TRUE, strings |-> <<>>]
    ELSE [panicked |-> FALSE,
          strings |->
            <<Paint(cfg.number_minus_format_style.ansi_term_style, minus.before),
              Paint(cfg.number_minus_style.ansi_term_style, minus.number),
              Paint(cfg.number_minus_format_style.ansi_term_style, minus.after),
              Paint(cfg.number_plus_format_style.ansi_term_style, plus.before),
              Paint(cfg.number_plus_style.ansi_term_style, plus.number),
              Paint(cfg.number_plus_format_style.ansi_term_style, plus.after)>>]

\* the gutter pieces of paint_lines: six painted strings, none, or a panic
GutterStrings(line_numbers, cfg) ==
    IF cfg.show_line_numbers /\ has_line_numbers(line_numbers)
    THEN PaintedComponents(
             get_line_number_components(line_numbers[1], cfg.number_minus_format),
             get_line_number_components(line_numbers[2], cfg.number_plus_format),
             cfg)
    ELSE [panicked |-> FALSE, strings |-> <<>>]

ContentStrings_prefix_every_section(sections, prefix) ==
    Flatten([i \in 1..Len(sections) |->
        LET section_style == sections[i][1]
            text          == sections[i][2]
        IN  IF prefix # <<>>
            THEN <<Paint(section_style.ansi_term_style, prefix),
                   Paint(section_style.ansi_term_style,
                         IF Len(text) > 0 THEN Tail(text) ELSE text)>>
            ELSE <<Paint(section_style.ansi_term_style, text)>>])

\* the loop of paint_lines over the superimposed sections: the prefix in
\* the style of the first section, which loses its first character
ContentStrings(sections, prefix) ==
    Flatten([i \in 1..Len(sections) |->
        LET section_style == sections[i][1]
            text          == sections[i][2]
        IN  IF i = 1
            THEN IF prefix # <<>>
                 THEN <<Paint(section_style.ansi_term_style, prefix),
                        Paint(section_style.ansi_term_style,
                              IF Len(text) > 0 THEN Tail(text) ELSE text)>>
                 ELSE <<Paint(section_style.ansi_term_style, text)>>
            ELSE <<Paint(section_style.ansi_term_style, text)>>])

\* the background fill of paint_lines: a trailing reset is cut off the
\* composed line, and the erase-in-line sequence and a reset are appended
extend_background(line) ==
    (IF Len(line) > 0 /\ line[Len(line)] = ANSI_SGR_RESET
     THEN SubSeq(line, 1, Len(line) - 1)
     ELSE line)
    \o <<ANSI_CSI_ERASE_IN_LINE>> \o <<ANSI_SGR_RESET>>

LineEnd_keeps_reset(line, extends, have_background_for_right_fill) ==
    (IF extends /\ have_background_for_right_fill
     THEN line \o <<ANSI_CSI_ERASE_IN_LINE>> \o <<ANSI_SGR_RESET>>
     ELSE line)
    \o <<Ch(NL)>>

\* the end of one line: the composed line, the erase-in-line sequence when
\* the background extends to the terminal width, and the line terminator
LineEnd(line, extends, have_background_for_right_fill) ==
    (IF extends /\ have_background_for_right_fill
     THEN extend_background(line)
     ELSE line)
    \o <<Ch(NL)>>

\* the style of the right fill of a line: non_emph_style when the diff
\* sections of the line have more than one style
right_fill_style(diff_sections, style, non_emph_style) ==
    IF style_sections_contain_more_than_one_style(diff_sections)
    THEN non_emph_style ELSE style

\* what one iteration pushes to ansi_strings: the gutter, the content with
\* its prefix, and the empty right fill when its style has a background
PushedStrings(gutter, runs, fill, prefix) ==
    [aborted |-> IF gutter.panicked THEN "template"
                 ELSE IF runs.panicked THEN "mismatch" ELSE "no",
     ansi_strings |->
        IF gutter.panicked \/ runs.panicked THEN <<>>
        ELSE gutter.strings \o ContentStrings(runs.value, prefix)
             \o (IF fill.ansi_term_style.background # NoColor
                 THEN <<Paint(fill.ansi_term_style, <<>>)>> ELSE <<>>),
     have_background_for_right_fill |-> fill.ansi_term_style.background # NoColor]

\* one iteration of the loop of paint_lines up to the composed line: the
\* painted strings pushed to ansi_strings, or the panic that ends it
compose_line(syntax_sections, diff_sections, line_numbers, cfg, prefix, style, non_emph_style) ==
    PushedStrings(GutterStrings(line_numbers, cfg),
                  superimpose_style_sections(syntax_sections, diff_sections,
                                             cfg.true_color, cfg.null_syntect_style),
                  right_fill_style(diff_sections, style, non_emph_style),
                  prefix)

\* the end of one iteration: the composed line written with its end, or
\* nothing when the iteration panicked
WrittenLine(composed, extends) ==
    IF composed.aborted # "no" THEN [aborted |-> composed.aborted, out |-> <<>>]
    ELSE [aborted |-> "no",
          out |-> LineEnd(ANSIStrings(composed.ansi_strings), extends,
                          composed.have_background_for_right_fill)]

\* one iteration of the loop of paint_lines: what it appends to the output
\* buffer, or the panic that ends it
paint_line(syntax_sections, diff_sections, line_numbers, cfg, prefix, style, non_emph_style, background_color_extends_to_terminal_width) ==
    WrittenLine(compose_line(syntax_sections, diff_sections, line_numbers, cfg,
                             prefix, style, non_emph_style),
                IF background_color_extends_to_terminal_width # None
                THEN background_color_extends_to_terminal_width[1]
                ELSE cfg.background_color_extends_to_terminal_width)

\* what two stretches of painting append one after the other: a panic in
\* the first ends the painting
Then(first, second) ==
    IF first.aborted # "no" THEN first
    ELSE [aborted |-> second.aborted, out |-> first.out \o second.out]

RECURSIVE paint_lines_from(_, _, _, _, _, _, _, _, _)
\* the iterations i, i + 1, ... of the loop of paint_lines
paint_lines_from(i, syntax_style_sections, diff_style_sections, line_number_sections, cfg, prefix, style, non_emph_style, extends) ==
    IF i > Min(Min(Len(syntax_style_sections), Len(diff_style_sections)),
               Len(line_number_sections))
    THEN [aborted |-> "no", out |-> <<>>]
    ELSE Then(paint_line(syntax_style_sections[i], diff_style_sections[i],
                         line_number_sections[i], cfg, prefix, style,
                         non_emph_style, extends),
              paint_lines_from(i + 1, syntax_style_sections,
                               diff_style_sections, line_number_sections,
                               cfg, prefix, style, non_emph_style, extends))

paint_lines_first_only(syntax_style_sections, diff_style_sections, line_number_sections, cfg, prefix, style, non_emph_style, background_color_extends_to_terminal_width) ==
    paint_lines_from(1, SubSeq(syntax_style_sections, 1, 1), diff_style_sections,
                     line_number_sections, cfg, prefix, style, non_emph_style,
                     background_color_extends_to_terminal_width)

\* Painter::paint_lines: what the call appends to the output buffer (up to
\* its panic, if it panics)
paint_lines(syntax_style_sections, diff_style_sections, line_number_sections, cfg, prefix, style, non_emph_style, background_color_extends_to_terminal_width) ==
    paint_lines_from(1, syntax_style_sections, diff_style_sections, line_number_sections,
                     cfg, prefix, style, non_emph_style,
                     background_color_extends_to_terminal_width)


(***************************************************************************)
(* The parts of the state a specification does not exercise stay idle.     *)
(***************************************************************************)
FormatIdle ==
    /\ f_number = None
    /\ f_text = <<>>
    /\ f_pc = "idle"

SuperIdle ==
    /\ sections_1 = <<>>
    /\ sections_2 = <<>>
    /\ call_true_color = FALSE
    /\ superimposed = [panicked |-> FALSE, value |-> <<>>]
    /\ s_pc = "idle"

NoCall == [fn |-> "none", args |-> <<>>, result |-> <<>>, pc |-> "idle"]

CallIdle == call = NoCall

\* a function about to be called with the arguments args
Ready(fn, args) == [fn |-> fn, args |-> args, result |-> <<>>, pc |-> "ready"]

(***************************************************************************)
(* The configuration.                                                      *)
(***************************************************************************)
\* the styles of the hunk lines, as make_hunk_styles resolves them: minus
\* lines are not syntax highlighted ("normal auto"), plus lines are
\* ("syntax auto"); the minus side has a --minus-non-emph-style of its own,
\* the plus side the default one, which is the plus style
MinusStyle == Style(AnsiTermStyle(NoColor, Color("MinusBg"), {}), FALSE, FALSE)

MinusEmphStyle == Style(AnsiTermStyle(NoColor, Color("MinusEmphBg"), {}), TRUE, FALSE)

MinusNonEmphStyle == Style(AnsiTermStyle(NoColor, Color("MinusNonEmphBg"), {}), FALSE, FALSE)

PlusStyle == Style(AnsiTermStyle(NoColor, Color("PlusBg"), {}), FALSE, TRUE)

PlusEmphStyle == Style(AnsiTermStyle(NoColor, Color("PlusEmphBg"), {}), TRUE, TRUE)

ZeroStyle == Style(AnsiTermStyle(NoColor, NoColor, {}), FALSE, TRUE)

NumberStyle == Style(AnsiTermStyle(Color("Blue"), NoColor, {}), FALSE, FALSE)

\* make_line_number_styles, for one of the four style options: the
\* hunk header style when the option is empty, else the colour it names
NumberStyleOf(option) ==
    IF option = "" THEN NumberStyle
    ELSE Style(AnsiTermStyle(Color(option), NoColor, {}), FALSE, FALSE)

\* the defaults of --number-minus-format and --number-plus-format, the
\* dividing characters written in ASCII
DefaultMinusFormat == <<"%", "l", "n", ":">>

DefaultPlusFormat == <<"%", "l", "n", "|", " ">>

\* a format with no placeholder
BadFormat == <<"#">>

\* the text "variable" of --width=variable
VariableWidth == <<"v", "a", "r", "i", "a", "b", "l", "e">>

\* the command line options the Painter's behaviour depends on
DefaultOpt ==
    [show_line_numbers       |-> FALSE,
     keep_plus_minus_markers |-> FALSE,
     width                   |-> None,
     theme                   |-> "None",
     number_minus_format     |-> DefaultMinusFormat,
     number_plus_format      |-> DefaultPlusFormat,
     number_minus_format_style |-> "",
     number_minus_style        |-> "",
     number_plus_format_style  |-> "",
     number_plus_style         |-> ""]

Opts ==
    {DefaultOpt,
     [DefaultOpt EXCEPT !.theme = "Some"],
     [DefaultOpt EXCEPT !.show_line_numbers = TRUE],
     [DefaultOpt EXCEPT !.show_line_numbers = TRUE, !.number_minus_format = BadFormat],
     [DefaultOpt EXCEPT !.keep_plus_minus_markers = TRUE, !.theme = "Some"],
     [DefaultOpt EXCEPT !.width = Some(VariableWidth), !.show_line_numbers = TRUE,
                        !.theme = "Some",
                        !.number_minus_format_style = "Yellow",
                        !.number_minus_style = "Red",
                        !.number_plus_format_style = "Cyan",
                        !.number_plus_style = "Green"]}

\* get_config, for the fields the Painter reads
get_config(o, true_color) ==
    [background_color_extends_to_terminal_width |->
         IF o.width = Some(VariableWidth) THEN FALSE ELSE TRUE,
     minus_style                |-> MinusStyle,
     minus_emph_style           |-> MinusEmphStyle,
     minus_non_emph_style       |-> MinusNonEmphStyle,
     zero_style                 |-> ZeroStyle,
     plus_style                 |-> PlusStyle,
     plus_emph_style            |-> PlusEmphStyle,
     plus_non_emph_style        |-> PlusStyle,
     number_minus_format_style  |-> NumberStyleOf(o.number_minus_format_style),
     number_minus_style         |-> NumberStyleOf(o.number_minus_style),
     number_plus_format_style   |-> NumberStyleOf(o.number_plus_format_style),
     number_plus_style          |-> NumberStyleOf(o.number_plus_style),
     theme                      |-> o.theme,
     minus_line_marker          |-> IF o.keep_plus_minus_markers THEN <<"-">> ELSE <<" ">>,
     plus_line_marker           |-> IF o.keep_plus_minus_markers THEN <<"+">> ELSE <<" ">>,
     null_syntect_style         |-> null_syntect_style,
     number_minus_format        |-> o.number_minus_format,
     number_plus_format         |-> o.number_plus_format,
     show_line_numbers          |-> o.show_line_numbers,
     true_color                 |-> true_color]

(***************************************************************************)
(* The width policy of get_config.                                         *)
(***************************************************************************)
IsDigit(c) == \E d \in 1..10 : DigitChars[d] = c

DigitValue(c) == (CHOOSE d \in 1..10 : DigitChars[d] = c) - 1

RECURSIVE DecimalValue(_)
\* the number a sequence of decimal digits writes
DecimalValue(digits) ==
    IF digits = <<>> THEN 0
    ELSE DecimalValue(SubSeq(digits, 1, Len(digits) - 1)) * 10
         + DigitValue(digits[Len(digits)])

RECURSIVE SignificantDigits(_)
\* digits without its leading zeros
SignificantDigits(digits) ==
    IF digits # <<>> /\ Head(digits) = "0" THEN SignificantDigits(Tail(digits))
    ELSE digits

\* the longest digit sequence whose number the model computes
MaxParsedDigits == 9

\* the number of digits of usize::MAX, 18446744073709551615; a number with
\* more significant digits does not fit
UsizeMaxDigits == 20

\* str::parse::<usize>: an optional "+", then one or more decimal digits
\* and nothing else, of a number that fits in 64 bits.  The number is
\* computed for up to MaxParsedDigits significant digits; the overflow is
\* decided for more than UsizeMaxDigits of them
parse_usize(text) ==
    LET digits == IF text # <<>> /\ Head(text) = "+" THEN Tail(text) ELSE text
    IN  IF digits = <<>> \/ \E i \in 1..Len(digits) : ~IsDigit(digits[i])
        THEN [ok |-> FALSE, value |-> 0]
        ELSE CASE Len(SignificantDigits(digits)) <= MaxParsedDigits ->
                      [ok |-> TRUE, value |-> DecimalValue(SignificantDigits(digits))]
               [] Len(SignificantDigits(digits)) > UsizeMaxDigits ->
                      [ok |-> FALSE, value |-> 0]

\* Term::stdout().size().1 - 1 for a u16 column count: the subtraction
\* overflows for 0 columns, which panics in a build with overflow checks
\* and wraps around in one without
available_terminal_width(columns, overflow_checks) ==
    IF columns = 0 /\ overflow_checks
    THEN [panicked |-> TRUE, value |-> 0]
    ELSE [panicked |-> FALSE, value |-> (columns - 1) % 65536]

\* the width of the decorations once the terminal width is known
WidthOf(width, available) ==
    IF width = None
    THEN [outcome |-> "ok", decorations_width |-> <<"Fixed", available>>,
          background_color_extends_to_terminal_width |-> TRUE]
    ELSE IF width = Some(VariableWidth)
    THEN [outcome |-> "ok", decorations_width |-> <<"Variable">>,
          background_color_extends_to_terminal_width |-> FALSE]
    ELSE IF parse_usize(width[1]).ok
    THEN [outcome |-> "ok",
          decorations_width |-> <<"Fixed", Min(parse_usize(width[1]).value, available)>>,
          background_color_extends_to_terminal_width |-> TRUE]
    ELSE [outcome |-> "exit 1", decorations_width |-> <<>>,
          background_color_extends_to_terminal_width |-> FALSE]

\* the first statements of get_config: decorations_width and
\* background_color_extends_to_terminal_width, or the end of the process
decorations_width(width, columns, overflow_checks) ==
    IF available_terminal_width(columns, overflow_checks).panicked
    THEN [outcome |-> "panic", decorations_width |-> <<>>,
          background_color_extends_to_terminal_width |-> FALSE]
    ELSE WidthOf(width, available_terminal_width(columns, overflow_checks).value)

(***************************************************************************)
(* The two collaborators of a flush.                                       *)
(***************************************************************************)
KEYWORD_STYLE == SyntectStyle("KW", "BLACK", "EMPTY")

PLAIN_TEXT_STYLE == SyntectStyle("TXT", "BLACK", "EMPTY")

\* the syntax style the highlighter gives a character
SyntaxStyleOf(c) == IF c \in {" ", NL} THEN PLAIN_TEXT_STYLE ELSE KEYWORD_STYLE

RECURSIVE HighlightFrom(_, _)
HighlightFrom(line, i) ==
    IF i > Len(line) THEN <<>>
    ELSE LET same == {j \in i..Len(line) :
                         \A k \in i..j : SyntaxStyleOf(line[k]) = SyntaxStyleOf(line[i])}
             to   == CHOOSE j \in same : \A k \in same : k <= j
         IN  <<<<SyntaxStyleOf(line[i]), SubSeq(line, i, to)>>>> \o HighlightFrom(line, to + 1)

\* HighlightLines::highlight: an ordered partition of the whole line, the
\* terminator included, one section per token
highlight(line) == HighlightFrom(line, 1)

\* edits::infer_edits for one line: a partition of the whole line into
\* sections in the side's style, or, for a line paired with a line of the
\* other side, in the side's style and its emph style.  The sections are
\* not coalesced.
LineAnnotations(line, style, emph_style, paired) ==
    {<<<<style, line>>>>}
    \cup {<<<<style, SubSeq(line, 1, 1)>>, <<style, SubSeq(line, 2, Len(line))>>>> :
             k \in {1} \cap 1..(Len(line) - 1)}
    \cup (IF paired
          THEN {<<<<style, SubSeq(line, 1, k)>>, <<emph_style, SubSeq(line, k + 1, Len(line) - 1)>>,
                  <<style, SubSeq(line, Len(line), Len(line))>>>> :
                   k \in 1..(Len(line) - 2)}
          ELSE {})

RECURSIVE SideAnnotations(_, _, _, _)
\* one annotation per line of one side, in line order
SideAnnotations(lines, style, emph_style, paired) ==
    IF lines = <<>> THEN {<<>>}
    ELSE {<<first>> \o rest :
             first \in LineAnnotations(Head(lines), style, emph_style, paired),
             rest \in SideAnnotations(Tail(lines), style, emph_style, paired)}

\* edits::infer_edits: one partition per line of each side
infer_edits(minus, plus, minus_style, minus_emph_style, plus_style, plus_emph_style) ==
    LET paired == minus # <<>> /\ plus # <<>>
    IN  SideAnnotations(minus, minus_style, minus_emph_style, paired)
        \X SideAnnotations(plus, plus_style, plus_emph_style, paired)

(***************************************************************************)
(* impl Painter                                                            *)
(***************************************************************************)
should_compute_whatever_the_theme(state, cfg) ==
    CASE state = "HunkMinus" ->
             cfg.minus_style.is_syntax_highlighted
             \/ cfg.minus_emph_style.is_syntax_highlighted
      [] state = "HunkZero" -> cfg.zero_style.is_syntax_highlighted
      [] state = "HunkPlus" ->
             cfg.plus_style.is_syntax_highlighted
             \/ cfg.plus_emph_style.is_syntax_highlighted
      [] state = "HunkHeader" -> TRUE

\* should_compute_syntax_highlighting, for the states it is defined for
should_compute_syntax_highlighting(state, cfg) ==
    IF cfg.theme = "None" THEN FALSE
    ELSE CASE state = "HunkMinus" ->
                  cfg.minus_style.is_syntax_highlighted
                  \/ cfg.minus_emph_style.is_syntax_highlighted
           [] state = "HunkZero" -> cfg.zero_style.is_syntax_highlighted
           [] state = "HunkPlus" ->
                  cfg.plus_style.is_syntax_highlighted
                  \/ cfg.plus_emph_style.is_syntax_highlighted
           [] state = "HunkHeader" -> TRUE

should_compute_panics_without_theme(state, cfg) ==
    state \notin {"HunkMinus", "HunkZero", "HunkPlus", "HunkHeader"}

\* the last arm of the match of should_compute_syntax_highlighting is
\* reached: the call panics
should_compute_panics(state, cfg) ==
    /\ cfg.theme # "None"
    /\ state \notin {"HunkMinus", "HunkZero", "HunkPlus", "HunkHeader"}

\* a call of should_compute_syntax_highlighting in any state: it panics or
\* returns its value
should_compute_outcome(state, cfg) ==
    IF should_compute_panics(state, cfg)
    THEN [panicked |-> TRUE, returned |-> None]
    ELSE [panicked |-> FALSE,
          returned |-> Some(should_compute_syntax_highlighting(state, cfg))]

\* the lines get_syntax_style_sections_for_lines hands to
\* highlighter.highlight, in the order of the calls
highlighter_invocations(lines, state, cfg) ==
    LET fake == ~should_compute_syntax_highlighting(state, cfg)
    IN  IF fake THEN <<>> ELSE lines

get_syntax_style_sections_for_lines(lines, state, cfg) ==
    LET fake == ~should_compute_syntax_highlighting(state, cfg)
    IN  [i \in 1..Len(lines) |->
            IF fake THEN <<<<cfg.null_syntect_style, lines[i]>>>> ELSE highlight(lines[i])]

set_non_emph_styles_every_line(style_sections, non_emph_style) ==
    [l \in 1..Len(style_sections) |->
        [i \in 1..Len(style_sections[l]) |->
            IF ~style_sections[l][i][1].is_emph
            THEN <<non_emph_style, style_sections[l][i][2]>>
            ELSE style_sections[l][i]]]

set_non_emph_styles(style_sections, non_emph_style) ==
    [l \in 1..Len(style_sections) |->
        IF style_sections_contain_more_than_one_style(style_sections[l])
        THEN [i \in 1..Len(style_sections[l]) |->
                 IF ~style_sections[l][i][1].is_emph
                 THEN <<non_emph_style, style_sections[l][i][2]>>
                 ELSE style_sections[l][i]]
        ELSE style_sections[l]]

\* get_diff_style_sections, applied to what infer_edits returned
get_diff_style_sections(diff_sections, cfg) ==
    <<IF cfg.minus_non_emph_style # cfg.minus_emph_style
      THEN set_non_emph_styles(diff_sections[1], cfg.minus_non_emph_style)
      ELSE diff_sections[1],
      IF cfg.plus_non_emph_style # cfg.plus_emph_style
      THEN set_non_emph_styles(diff_sections[2], cfg.plus_non_emph_style)
      ELSE diff_sections[2]>>

\* the line numbers a flush hands to paint_lines for the minus lines
minus_line_numbers_of(lines, counter) ==
    [i \in 1..Len(lines) |-> <<Some(counter + i - 1), None>>]

plus_line_numbers_not_advancing(lines, counter) ==
    [i \in 1..Len(lines) |-> <<None, Some(counter)>>]

\* the line numbers a flush hands to paint_lines for the plus lines
plus_line_numbers_of(lines, counter) ==
    [i \in 1..Len(lines) |-> <<None, Some(counter + i - 1)>>]

\* the call of paint_lines for the minus lines, made when there are any
paint_minus_lines(minus, diff, minus_counter, cfg) ==
    IF minus # <<>>
    THEN paint_lines(get_syntax_style_sections_for_lines(minus, "HunkMinus", cfg),
                     diff, minus_line_numbers_of(minus, minus_counter), cfg,
                     cfg.minus_line_marker, cfg.minus_style,
                     cfg.minus_non_emph_style, None)
    ELSE [aborted |-> "no", out |-> <<>>]

\* the call of paint_lines for the plus lines, made when there are any
paint_plus_lines(plus, diff, plus_counter, cfg) ==
    IF plus # <<>>
    THEN paint_lines(get_syntax_style_sections_for_lines(plus, "HunkPlus", cfg),
                     diff, plus_line_numbers_of(plus, plus_counter), cfg,
                     cfg.plus_line_marker, cfg.plus_style,
                     cfg.plus_non_emph_style, None)
    ELSE [aborted |-> "no", out |-> <<>>]

paint_both_sides_plus_first(minus, plus, edits, minus_counter, plus_counter, cfg) ==
    Then(paint_plus_lines(plus, get_diff_style_sections(edits, cfg)[2], plus_counter, cfg),
         paint_minus_lines(minus, get_diff_style_sections(edits, cfg)[1], minus_counter, cfg))

\* the two calls of paint_lines of paint_buffered_lines, minus lines first:
\* what they append to the output buffer (up to a panic)
paint_both_sides(minus, plus, edits, minus_counter, plus_counter, cfg) ==
    Then(paint_minus_lines(minus, get_diff_style_sections(edits, cfg)[1], minus_counter, cfg),
         paint_plus_lines(plus, get_diff_style_sections(edits, cfg)[2], plus_counter, cfg))

paint_buffered_lines_counting_rendered(minus, plus, edits, minus_counter, plus_counter, cfg) ==
    [painted |-> paint_both_sides(minus, plus, edits, minus_counter, plus_counter, cfg),
     minus_line_number |-> minus_counter + Min(Len(minus), Len(edits[1])),
     plus_line_number |-> plus_counter + Min(Len(plus), Len(edits[2]))]

\* Painter::paint_buffered_lines for what infer_edits returned: what the
\* call appends to the output buffer (up to a panic) and the counters as
\* its two loops leave them
paint_buffered_lines(minus, plus, edits, minus_counter, plus_counter, cfg) ==
    [painted |-> paint_both_sides(minus, plus, edits, minus_counter, plus_counter, cfg),
     minus_line_number |-> minus_counter + Len(minus),
     plus_line_number |-> plus_counter + Len(plus)]

\* the configuration of the run: get_config is called once, at startup, on
\* a terminal with 24-bit colour
config == get_config(opt, TRUE)

PainterIdle ==
    /\ opt = DefaultOpt
    /\ minus_lines = <<>>
    /\ plus_lines = <<>>
    /\ output_buffer = <<>>
    /\ minus_line_number = 0
    /\ plus_line_number = 0
    /\ writer = <<>>
    /\ write_failed = FALSE
    /\ aborted = "no"
    /\ flushed = <<>>

\* Painter::new
PainterInit ==
    /\ opt \in Opts
    /\ minus_lines = <<>>
    /\ plus_lines = <<>>
    /\ output_buffer = <<>>
    /\ minus_line_number = 0
    /\ plus_line_number = 0
    /\ writer = <<>>
    /\ write_failed = FALSE
    /\ aborted = "no"
    /\ flushed = <<>>

\* the lines the hunk state machine pushes: the first column blanked, the
\* terminator appended; an empty input line is the terminator alone
Lines == {<<" ", "a", NL>>, <<NL>>}

Pushed == Len(flushed) + Len(minus_lines) + Len(plus_lines)

\* painter.minus_lines.push(line)
PushMinus ==
    /\ aborted = "no"
    /\ Pushed < MaxPushed
    /\ \E line \in Lines : minus_lines' = Append(minus_lines, line)
    /\ UNCHANGED <<opt, plus_lines, output_buffer, minus_line_number, plus_line_number,
                   writer, write_failed, aborted, flushed>>

\* painter.plus_lines.push(line)
PushPlus ==
    /\ aborted = "no"
    /\ Pushed < MaxPushed
    /\ \E line \in Lines : plus_lines' = Append(plus_lines, line)
    /\ UNCHANGED <<opt, minus_lines, output_buffer, minus_line_number, plus_line_number,
                   writer, write_failed, aborted, flushed>>

\* Painter::paint_buffered_lines
PaintBufferedLines ==
    /\ aborted = "no"
    /\ \E edits \in infer_edits(minus_lines, plus_lines, config.minus_style,
                                config.minus_emph_style, config.plus_style,
                                config.plus_emph_style) :
         LET painted == paint_both_sides(minus_lines, plus_lines, edits,
                                         minus_line_number, plus_line_number, config)
         IN  /\ output_buffer' = output_buffer \o painted.out
             /\ aborted' = painted.aborted
             /\ minus_lines' = IF painted.aborted = "no" THEN <<>> ELSE minus_lines
             /\ plus_lines' = IF painted.aborted = "no" THEN <<>> ELSE plus_lines
    /\ minus_line_number' = minus_line_number + Len(minus_lines)
    /\ plus_line_number' = plus_line_number + Len(plus_lines)
    /\ flushed' = flushed
                  \o [i \in 1..Len(minus_lines) |->
                        [side |-> "minus", line |-> minus_lines[i],
                         numbers |-> minus_line_numbers_of(minus_lines, minus_line_number)[i]]]
                  \o [i \in 1..Len(plus_lines) |->
                        [side |-> "plus", line |-> plus_lines[i],
                         numbers |-> plus_line_numbers_of(plus_lines, plus_line_number)[i]]]
    /\ UNCHANGED <<opt, writer, write_failed>>

EmitKeepsBuffer ==
    /\ aborted = "no"
    /\ writer' = writer \o output_buffer
    /\ UNCHANGED <<opt, minus_lines, plus_lines, output_buffer, minus_line_number,
                   plus_line_number, write_failed, aborted, flushed>>

\* Painter::emit, the write succeeding
Emit ==
    /\ aborted = "no"
    /\ writer' = writer \o output_buffer
    /\ output_buffer' = <<>>
    /\ UNCHANGED <<opt, minus_lines, plus_lines, minus_line_number, plus_line_number,
                   write_failed, aborted, flushed>>

EmitFailsClearsBuffer ==
    /\ aborted = "no"
    /\ write_failed' = TRUE
    /\ output_buffer' = <<>>
    /\ UNCHANGED <<opt, minus_lines, plus_lines, minus_line_number, plus_line_number,
                   writer, aborted, flushed>>

\* Painter::emit, the write failing: the error is returned by `?` before
\* the buffer is cleared
EmitFails ==
    /\ aborted = "no"
    /\ write_failed' = TRUE
    /\ UNCHANGED <<opt, minus_lines, plus_lines, output_buffer, minus_line_number,
                   plus_line_number, writer, aborted, flushed>>

PainterNext ==
    \/ (PushMinus /\ UNCHANGED <<svars, fvars, cvars>>)
    \/ (PushPlus /\ UNCHANGED <<svars, fvars, cvars>>)
    \/ (PaintBufferedLines /\ UNCHANGED <<svars, fvars, cvars>>)
    \/ (Emit /\ UNCHANGED <<svars, fvars, cvars>>)
    \/ (EmitFails /\ UNCHANGED <<svars, fvars, cvars>>)

Init == PainterInit /\ SuperIdle /\ FormatIdle /\ CallIdle

Next == PainterNext

Spec == Init /\ [][Next]_vars

(***************************************************************************)
(* Specification SpecFormatLineNumber: format_line_number applied to every *)
(* optional line number within the bounds.                                 *)
(***************************************************************************)
FormatInit ==
    /\ f_number \in {None} \cup {Some(x) : x \in 0..MaxLineNumber}
    /\ f_text = <<>>
    /\ f_pc = "ready"

CallFormatLineNumber ==
    /\ f_pc = "ready"
    /\ f_text' = format_line_number(f_number)
    /\ f_pc' = "done"
    /\ UNCHANGED f_number
    /\ UNCHANGED <<svars, pvars, cvars>>

FormatNext == CallFormatLineNumber

InitFormatLineNumber == FormatInit /\ SuperIdle /\ PainterIdle /\ CallIdle

SpecFormatLineNumber == InitFormatLineNumber /\ [][FormatNext]_vars

(***************************************************************************)
(* Specification SpecSuperimpose: superimpose_style_sections applied to    *)
(* every pair of partitions within the bounds.                             *)
(***************************************************************************)
TextChars == {"a", NL}

SyntaxStyles == {null_syntect_style, SYNTAX_STYLE}

DiffStyles == {SYNTAX_HIGHLIGHTED_STYLE, NON_SYNTAX_HIGHLIGHTED_STYLE}

Texts == SeqsUpTo(TextChars, MaxLen)

\* the ordered partitions of text into non-empty sections styled from styles
RECURSIVE PartitionsOf(_, _)
PartitionsOf(text, styles) ==
    IF text = <<>> THEN {<<>>}
    ELSE UNION {
           {<<<<st, SubSeq(text, 1, k)>>>> \o rest :
                st \in styles, rest \in PartitionsOf(SubSeq(text, k + 1, Len(text)), styles)}
           : k \in 1..Len(text)}

Partitions(styles) == UNION {PartitionsOf(t, styles) : t \in Texts}

NoResult == [panicked |-> FALSE, value |-> <<>>]

\* the values of the argument sections_1
SyntaxPartitions == Partitions(SyntaxStyles)

\* the values of the argument sections_2
DiffPartitions == Partitions(DiffStyles)

SuperInit ==
    /\ sections_1 \in SyntaxPartitions
    /\ sections_2 \in DiffPartitions
    /\ call_true_color = FALSE
    /\ superimposed = NoResult
    /\ s_pc = "ready"

\* one call of superimpose_style_sections, as paint_lines makes it
CallSuperimpose ==
    /\ s_pc = "ready"
    /\ \E tc \in BOOLEAN :
         /\ call_true_color' = tc
         /\ superimposed' = superimpose_style_sections(sections_1, sections_2, tc,
                                                       null_syntect_style)
    /\ s_pc' = "done"
    /\ UNCHANGED <<sections_1, sections_2>>
    /\ UNCHANGED <<fvars, pvars, cvars>>

SuperNext == CallSuperimpose

InitSuperimpose == SuperInit /\ FormatIdle /\ PainterIdle /\ CallIdle

SpecSuperimpose == InitSuperimpose /\ [][SuperNext]_vars

(***************************************************************************)
(* Specification SpecGutter: get_line_number_components applied to every   *)
(* gutter format within the bounds and a few optional numbers.             *)
(***************************************************************************)
FormatChars == {"%", "l", "n", ":", NL}

NumberFormats == SeqsUpTo(FormatChars, MaxFormatLen)

GutterNumbers == {None, Some(7), Some(12345)}

GutterInit ==
    call \in {Ready("get_line_number_components",
                    [number |-> n, number_format |-> f]) :
                 n \in GutterNumbers, f \in NumberFormats}

CallGetLineNumberComponents ==
    /\ call.fn = "get_line_number_components"
    /\ call.pc = "ready"
    /\ call' = [call EXCEPT
                  !.result = get_line_number_components(call.args.number,
                                                        call.args.number_format),
                  !.pc = "done"]
    /\ UNCHANGED <<svars, fvars, pvars>>

GutterNext == CallGetLineNumberComponents

InitGutter == GutterInit /\ SuperIdle /\ FormatIdle /\ PainterIdle

SpecGutter == InitGutter /\ [][GutterNext]_vars

(***************************************************************************)
(* Specification SpecPaintLines: paint_lines called for one line, with     *)
(* the arguments of a flush and with those of its other callers.           *)
(***************************************************************************)
\* a hunk line, an empty line, a line without terminator
PaintLineTexts == {<<" ", "a", NL>>, <<NL>>, <<"a">>}

PaintDiffStyles == {PlusStyle, PlusEmphStyle}

\* the arguments style and non_emph_style
PaintFills == {<<MinusStyle, MinusNonEmphStyle>>, <<ZeroStyle, ZeroStyle>>,
               <<ZeroStyle, PlusStyle>>}

PaintPrefixes == {<<>>, <<"+">>}

PaintOverrides == {None, Some(TRUE), Some(FALSE)}

\* the line numbers of a line: those a flush gives a minus line and a plus
\* line, and those of the other callers
PaintLineNumbers(line) ==
    {[side |-> "minus", numbers |-> minus_line_numbers_of(<<line>>, 3)[1]],
     [side |-> "plus", numbers |-> plus_line_numbers_of(<<line>>, 12)[1]],
     [side |-> "other", numbers |-> <<None, None>>],
     [side |-> "other", numbers |-> <<Some(1), Some(2)>>]}

PaintLinesInit ==
    \E line \in PaintLineTexts, o \in Opts, prefix \in PaintPrefixes,
       fill \in PaintFills, override \in PaintOverrides :
      \E syn \in {<<<<null_syntect_style, line>>>>, highlight(line)},
         diff \in PartitionsOf(line, PaintDiffStyles),
         ln \in PaintLineNumbers(line) :
        call = Ready("paint_lines",
                     [line |-> line,
                      syntax_sections |-> syn,
                      diff_sections |-> diff,
                      side |-> ln.side,
                      line_numbers |-> ln.numbers,
                      opt |-> o,
                      prefix |-> prefix,
                      style |-> fill[1],
                      non_emph_style |-> fill[2],
                      background_color_extends_to_terminal_width |-> override])

\* Painter::paint_lines for one line: what it appended to the output
\* buffer, and the values of the locals of its loop
CallPaintLines ==
    /\ call.fn = "paint_lines"
    /\ call.pc = "ready"
    /\ LET a == call.args
           cfg == get_config(a.opt, TRUE)
           painted  == paint_lines(<<a.syntax_sections>>, <<a.diff_sections>>,
                                   <<a.line_numbers>>, cfg, a.prefix, a.style,
                                   a.non_emph_style,
                                   a.background_color_extends_to_terminal_width)
           composed == compose_line(a.syntax_sections, a.diff_sections, a.line_numbers,
                                    cfg, a.prefix, a.style, a.non_emph_style)
           runs     == superimpose_style_sections(a.syntax_sections, a.diff_sections,
                                                  cfg.true_color,
                                                  cfg.null_syntect_style)
       IN  call' = [call EXCEPT
                      !.result = [aborted      |-> painted.aborted,
                                  out          |-> painted.out,
                                  ansi_strings |-> composed.ansi_strings,
                                  sections     |-> runs.value],
                      !.pc = "done"]
    /\ UNCHANGED <<svars, fvars, pvars>>

PaintLinesNext == CallPaintLines

InitPaintLines == PaintLinesInit /\ SuperIdle /\ FormatIdle /\ PainterIdle

SpecPaintLines == InitPaintLines /\ [][PaintLinesNext]_vars

(***************************************************************************)
(* Specification SpecRenderedLines: paint_lines called with any number of  *)
(* syntax partitions, diff partitions and line-number entries up to        *)
(* MaxLines + 1, and paint_buffered_lines called with an edit-inference    *)
(* engine that returns any number of partitions up to MaxLines + 1 for     *)
(* each side, whatever the number of buffered lines.                       *)
(***************************************************************************)
\* the numbers of entries handed to paint_lines
EntryCounts == 0..(MaxLines + 1)

\* the i-th line, if there is one, and else the terminator alone
LineOr(lines, i) == IF i <= Len(lines) THEN lines[i] ELSE <<NL>>

\* count partitions in the style, the i-th of the i-th line
PartitionsReturned(lines, count, style) ==
    [i \in 1..count |-> <<<<style, LineOr(lines, i)>>>>]

\* the counters a flush starts from
CounterStarts == {1, 5}

RenderedLinesInit ==
    \/ \E lines \in [1..(MaxLines + 1) -> Lines], o \in Opts :
         \E syntax_count \in EntryCounts, diff_count \in EntryCounts,
            number_count \in EntryCounts :
           call = Ready("paint_lines, several lines",
                        [syntax_style_sections |->
                             PartitionsReturned(lines, syntax_count, null_syntect_style),
                         diff_style_sections |->
                             PartitionsReturned(lines, diff_count, MinusStyle),
                         line_number_sections |->
                             minus_line_numbers_of(SubSeq(lines, 1, number_count), 1),
                         opt |-> o])
    \/ \E minus \in SeqsUpTo(Lines, MaxLines), plus \in SeqsUpTo(Lines, MaxLines),
          o \in Opts, start \in CounterStarts :
         \E minus_count \in EntryCounts, plus_count \in EntryCounts :
           call = Ready("paint_buffered_lines",
                        [minus_lines |-> minus,
                         plus_lines |-> plus,
                         edits |-> <<PartitionsReturned(minus, minus_count, MinusStyle),
                                     PartitionsReturned(plus, plus_count, PlusStyle)>>,
                         minus_line_number |-> start,
                         plus_line_number |-> start + 1,
                         opt |-> o])

CallPaintSeveralLines ==
    /\ call.fn = "paint_lines, several lines"
    /\ call.pc = "ready"
    /\ call' = [call EXCEPT
                  !.result = paint_lines(call.args.syntax_style_sections,
                                         call.args.diff_style_sections,
                                         call.args.line_number_sections,
                                         get_config(call.args.opt, TRUE),
                                         get_config(call.args.opt, TRUE).minus_line_marker,
                                         MinusStyle, MinusNonEmphStyle, None),
                  !.pc = "done"]
    /\ UNCHANGED <<svars, fvars, pvars>>

CallPaintBufferedLines ==
    /\ call.fn = "paint_buffered_lines"
    /\ call.pc = "ready"
    /\ call' = [call EXCEPT
                  !.result = paint_buffered_lines(call.args.minus_lines,
                                                  call.args.plus_lines,
                                                  call.args.edits,
                                                  call.args.minus_line_number,
                                                  call.args.plus_line_number,
                                                  get_config(call.args.opt, TRUE)),
                  !.pc = "done"]
    /\ UNCHANGED <<svars, fvars, pvars>>

RenderedLinesNext == CallPaintSeveralLines \/ CallPaintBufferedLines

InitRenderedLines == RenderedLinesInit /\ SuperIdle /\ FormatIdle /\ PainterIdle

SpecRenderedLines == InitRenderedLines /\ [][RenderedLinesNext]_vars

(***************************************************************************)
(* Specification SpecWidth: the width policy of get_config for the texts   *)
(* of --width and the column counts of the terminal listed here, in a      *)
(* build with and in one without overflow checks.                          *)
(***************************************************************************)
WidthTexts ==
    {VariableWidth,
     <<"V", "a", "r", "i", "a", "b", "l", "e">>,
     <<>>,
     <<"0">>,
     <<"7">>,
     <<"0", "7">>,
     <<"+", "7">>,
     <<"-", "1">>,
     <<"7", "x">>,
     <<" ", "7">>,
     <<"8", "0">>,
     <<"2", "0", "0">>,
     [i \in 1..(UsizeMaxDigits + 1) |-> "9"]}

Widths == {None} \cup {Some(t) : t \in WidthTexts}

\* column counts of the terminal: a u16
TerminalColumns == {0, 1, 2, 80, 81, 65535}

WidthInit ==
    call \in {Ready("get_config", [width |-> w, columns |-> c]) :
                 w \in Widths, c \in TerminalColumns}

\* get_config up to the width policy
CallGetConfig ==
    /\ call.fn = "get_config"
    /\ call.pc = "ready"
    /\ \E overflow_checks \in BOOLEAN :
         call' = [call EXCEPT
                    !.result = [overflow_checks |-> overflow_checks,
                                config |-> decorations_width(call.args.width,
                                                             call.args.columns,
                                                             overflow_checks)],
                    !.pc = "done"]
    /\ UNCHANGED <<svars, fvars, pvars>>

WidthNext == CallGetConfig

InitWidth == WidthInit /\ SuperIdle /\ FormatIdle /\ PainterIdle

SpecWidth == InitWidth /\ [][WidthNext]_vars

(***************************************************************************)
(* set_options: the lookup of the values of the options that were not      *)
(* given on the command line.  A git config is a function from the keys it *)
(* holds to their values; a key is the tuple of the parts that format!     *)
(* joins with dots.                                                        *)
(***************************************************************************)
\* the options of the list of set_options that the model follows, in the
\* order of the list
OptionList ==
    <<"presets", "max-line-distance", "minus-style", "tabs", "whitespace-error-style">>

\* the type each of them has in the list
OptionType(option_name) ==
    CASE option_name = "presets" -> "Option<String>"
      [] option_name = "max-line-distance" -> "f64"
      [] option_name = "minus-style" -> "String"
      [] option_name = "tabs" -> "usize"
      [] option_name = "whitespace-error-style" -> "String"

\* opt.$field_ident for the field of the option
Field(o, option_name) ==
    CASE option_name = "presets" -> o.presets
      [] option_name = "max-line-distance" -> o.max_line_distance
      [] option_name = "minus-style" -> o.minus_style
      [] option_name = "tabs" -> o.tab_width
      [] option_name = "whitespace-error-style" -> o.whitespace_error_style

\* opt.$field_ident = value
SetField(o, option_name, value) ==
    CASE option_name = "presets" -> [o EXCEPT !.presets = value]
      [] option_name = "max-line-distance" -> [o EXCEPT !.max_line_distance = value]
      [] option_name = "minus-style" -> [o EXCEPT !.minus_style = value]
      [] option_name = "tabs" -> [o EXCEPT !.tab_width = value]
      [] option_name = "whitespace-error-style" ->
             [o EXCEPT !.whitespace_error_style = value]

\* char::to_lowercase, for the letters of the preset names of the model
Lower(c) ==
    CASE c = "A" -> "a"
      [] c = "B" -> "b"
      [] OTHER -> c

\* str::to_lowercase
to_lowercase(text) == [i \in 1..Len(text) |-> Lower(text[i])]

RECURSIVE SplitFrom(_, _, _)
\* the words of text after the words found so far, current being the
\* word that is being read
SplitFrom(text, current, words) ==
    IF text = <<>>
    THEN IF current = <<>> THEN words ELSE Append(words, current)
    ELSE IF Head(text) = " "
    THEN SplitFrom(Tail(text), <<>>,
                   IF current = <<>> THEN words ELSE Append(words, current))
    ELSE SplitFrom(Tail(text), Append(current, Head(text)), words)

\* str::split_whitespace: the non-empty words between the blanks
split_whitespace(text) == SplitFrom(text, <<>>, <<>>)

rev_keeps_order(words) == words

\* Iterator::rev
rev(words) == [i \in 1..Len(words) |-> words[Len(words) + 1 - i]]

\* config::user_supplied_option: arg_matches.occurrences_of(option) > 0
user_supplied_option(option, arg_matches) == option \in arg_matches

\* GitConfig::get: the value of the key, if the git config holds it
git_config_get(git_config, key) ==
    IF key \in DOMAIN git_config THEN Some(git_config[key]) ELSE None

\* get_value_function_from_builtin_preset and the call of the value
\* function: the value the builtin preset gives the option, if any
get_value_function_from_builtin_preset(option_name, builtin_preset) ==
    IF option_name \in DOMAIN builtin_preset
    THEN Some(builtin_preset[option_name]) ELSE None

\* preset::make_builtin_presets: two builtin presets, a with a minus
\* style and a tab width, b with a minus style
make_builtin_presets ==
    (<<"a">> :> ("minus-style" :> "builtin a" @@ "tabs" :> 3))
    @@ (<<"b">> :> ("minus-style" :> "builtin b"))

\* the second step of get_option_value_for_preset: the builtin preset
ValueOfBuiltinPreset(option_name, preset, builtin_presets) ==
    IF preset \in DOMAIN builtin_presets
    THEN get_value_function_from_builtin_preset(option_name, builtin_presets[preset])
    ELSE None

\* GetOptionValue::get_option_value_for_preset
get_option_value_for_preset(option_name, preset, builtin_presets, git_config) ==
    IF /\ git_config # None
       /\ git_config_get(git_config[1], <<"delta", preset, option_name>>) # None
    THEN git_config_get(git_config[1], <<"delta", preset, option_name>>)
    ELSE ValueOfBuiltinPreset(option_name, preset, builtin_presets)

RECURSIVE ValueOfPresets(_, _, _, _)
\* the loop of get_option_value over the presets: the value of the first
\* preset that has one
ValueOfPresets(option_name, presets, builtin_presets, git_config) ==
    IF presets = <<>> THEN None
    ELSE IF get_option_value_for_preset(option_name, Head(presets), builtin_presets,
                                        git_config) # None
    THEN get_option_value_for_preset(option_name, Head(presets), builtin_presets,
                                     git_config)
    ELSE ValueOfPresets(option_name, Tail(presets), builtin_presets, git_config)

\* the last step of get_option_value: the main section of the git config
ValueOfMainSection(option_name, git_config) ==
    IF git_config # None
    THEN git_config_get(git_config[1], <<"delta", option_name>>)
    ELSE None

\* the first step of get_option_value: the listed presets, right to left
ValueOfListedPresets(option_name, builtin_presets, o, git_config) ==
    IF o.presets # None
    THEN ValueOfPresets(option_name,
                        rev(split_whitespace(to_lowercase(o.presets[1]))),
                        builtin_presets, git_config)
    ELSE None

get_option_value_main_section_first(option_name, builtin_presets, o, git_config) ==
    IF ValueOfMainSection(option_name, git_config) # None
    THEN ValueOfMainSection(option_name, git_config)
    ELSE ValueOfListedPresets(option_name, builtin_presets, o, git_config)

\* GetOptionValue::get_option_value, the method of the trait
get_option_value_of_trait(option_name, builtin_presets, o, git_config) ==
    IF ValueOfListedPresets(option_name, builtin_presets, o, git_config) # None
    THEN ValueOfListedPresets(option_name, builtin_presets, o, git_config)
    ELSE ValueOfMainSection(option_name, git_config)

RECURSIVE Limbs(_, _)
\* the n lowest digits of value in base 2^16, lowest first, of the two's
\* complement of value
Limbs(value, n) ==
    IF n = 0 THEN <<>>
    ELSE <<value % 65536>> \o Limbs(value \div 65536, n - 1)

as_usize_saturating(value) == IF value < 0 THEN Limbs(0, 4) ELSE Limbs(value, 4)

\* `value as usize` for an i64: the same 64 bits, written as four digits
\* in base 2^16, lowest first
as_usize(value) == Limbs(value, 4)

\* the digits of text up to its first character that is no digit
LeadingDigits(text) ==
    SubSeq(text, 1, CHOOSE n \in 0..Len(text) :
                       /\ \A i \in 1..n : IsDigit(text[i])
                       /\ n < Len(text) => ~IsDigit(text[n + 1]))

RECURSIVE WithoutTrailingZeros(_)
WithoutTrailingZeros(digits) ==
    IF digits # <<>> /\ digits[Len(digits)] = "0"
    THEN WithoutTrailingZeros(SubSeq(digits, 1, Len(digits) - 1))
    ELSE digits

\* the decimal number of an integer part and a fraction part: the pair
\* <<m, e>> for m * 10^e, m without trailing zeros
DecimalNumber(integer, fraction) ==
    <<DecimalValue(SignificantDigits(integer \o WithoutTrailingZeros(fraction))),
      0 - Len(WithoutTrailingZeros(fraction))>>

\* str::parse::<f64>().ok() for a text without sign and exponent: digits,
\* or digits with one point among them, at least one digit in all
ParseUnsignedFloat(text, integer) ==
    IF Len(integer) = Len(text)
    THEN IF integer = <<>> THEN None ELSE Some(DecimalNumber(integer, <<>>))
    ELSE IF /\ text[Len(integer) + 1] = "."
            /\ \A i \in (Len(integer) + 2)..Len(text) : IsDigit(text[i])
            /\ Len(text) > 1
    THEN Some(DecimalNumber(integer, SubSeq(text, Len(integer) + 2, Len(text))))
    ELSE None

parse_f64(text) == ParseUnsignedFloat(text, LeadingDigits(text))

\* the conversions of the implementations of GetOptionValue for
\* Option<String>, usize and f64
Converted(type, value) ==
    IF value = None THEN None
    ELSE CASE type = "Option<String>" -> Some(Some(value[1]))
           [] type = "usize" -> Some(as_usize(value[1]))
           [] type = "f64" -> parse_f64(value[1])
           [] OTHER -> value

\* get_option_value::<T>
get_option_value(type, option_name, builtin_presets, o, git_config) ==
    Converted(type, get_option_value_of_trait(option_name, builtin_presets, o, git_config))

\* the assignment of the macro set_options! for a value that was looked up
Assigned(o, option_name, value) ==
    IF value # None THEN SetField(o, option_name, value[1]) ELSE o

\* the body of the macro set_options! for one option of the list
set_option(o, option_name, builtin_presets, git_config, arg_matches) ==
    IF ~user_supplied_option(option_name, arg_matches)
    THEN Assigned(o, option_name,
                  get_option_value(OptionType(option_name), option_name,
                                   builtin_presets, o, git_config))
    ELSE o

RECURSIVE set_options_from(_, _, _, _, _)
\* the macro set_options! from the i-th option of the list on
set_options_from(i, o, builtin_presets, git_config, arg_matches) ==
    IF i > Len(OptionList) THEN o
    ELSE set_options_from(i + 1,
                          set_option(o, OptionList[i], builtin_presets, git_config,
                                     arg_matches),
                          builtin_presets, git_config, arg_matches)

\* the value whitespace-error-style defaults to
WhitespaceFallback(git_config) ==
    IF git_config # None /\ git_config_get(git_config[1], <<"color.diff.whitespace">>) # None
    THEN git_config_get(git_config[1], <<"color.diff.whitespace">>)[1]
    ELSE "magenta reverse"

\* the first statement of set_options after the test of no_gitconfig
whitespace_error_style_default(o, git_config, arg_matches) ==
    IF ~user_supplied_option("whitespace-error-style", arg_matches)
    THEN [o EXCEPT !.whitespace_error_style = WhitespaceFallback(git_config)]
    ELSE o

set_options_whatever_no_gitconfig(o, git_config, arg_matches) ==
    set_options_from(1, whitespace_error_style_default(o, git_config, arg_matches),
                     make_builtin_presets, git_config, arg_matches)

\* set_options: opt as it leaves it
set_options(o, git_config, arg_matches) ==
    IF o.no_gitconfig THEN o
    ELSE set_options_from(1, whitespace_error_style_default(o, git_config, arg_matches),
                          make_builtin_presets, git_config, arg_matches)

(***************************************************************************)
(* Specification SpecSetOptions: set_options applied to every command      *)
(* line over the options of OptionList and every git config of at most     *)
(* MaxConfigEntries of the entries listed here.                            *)
(***************************************************************************)
\* the entries a git config of the model may hold: a key and its value
ConfigEntries ==
    {<<<<"delta", "presets">>, <<"a">>>>,
     <<<<"delta", "presets">>, <<"a", " ", "B">>>>,
     <<<<"color.diff.whitespace">>, "red reverse">>,
     <<<<"delta", "minus-style">>, "main">>,
     <<<<"delta", <<"a">>, "minus-style">>, "section a">>,
     <<<<"delta", <<"b">>, "minus-style">>, "section b">>,
     <<<<"delta", "tabs">>, 0 - 1>>,
     <<<<"delta", "tabs">>, 8>>,
     <<<<"delta", <<"a">>, "tabs">>, 0>>,
     <<<<"delta", "max-line-distance">>, <<"0", ".", "5", "0">>>>,
     <<<<"delta", "max-line-distance">>, <<"a", "b", "c">>>>,
     <<<<"delta", <<"a">>, "max-line-distance">>, <<".">>>>,
     <<<<"delta", "whitespace-error-style">>, "main whitespace">>}

\* the git config that holds the entries
ConfigOf(entries) ==
    [key \in {e[1] : e \in entries} |-> (CHOOSE e \in entries : e[1] = key)[2]]

\* the git configs of at most MaxConfigEntries entries, one value a key
GitConfigs ==
    {ConfigOf(entries) :
        entries \in {es \in SUBSET ConfigEntries :
                        /\ Cardinality(es) <= MaxConfigEntries
                        /\ \A e1, e2 \in es : e1[1] = e2[1] => e1 = e2}}

\* the values of --presets on the command line
PresetTexts == {<<"a">>, <<"b", " ", "A">>, <<"c", " ", " ", "b">>}

\* opt as structopt leaves it for the options given on the command line
ParsedOpt(arg_matches, presets, no_gitconfig) ==
    [no_gitconfig |-> no_gitconfig,
     presets |-> IF "presets" \in arg_matches THEN Some(presets) ELSE None,
     max_line_distance |->
         IF "max-line-distance" \in arg_matches THEN <<2, 0 - 1>> ELSE <<6, 0 - 1>>,
     minus_style |->
         IF "minus-style" \in arg_matches THEN "command line" ELSE "default",
     tab_width |-> IF "tabs" \in arg_matches THEN Limbs(6, 4) ELSE Limbs(4, 4),
     whitespace_error_style |->
         IF "whitespace-error-style" \in arg_matches
         THEN "command line whitespace" ELSE "auto"]

OptionNames == {OptionList[i] : i \in 1..Len(OptionList)}

SetOptionsInit ==
    \E arg_matches \in SUBSET OptionNames, no_gitconfig \in BOOLEAN,
       git_config \in {None} \cup {Some(g) : g \in GitConfigs} :
      \E presets \in IF "presets" \in arg_matches THEN PresetTexts ELSE {<<>>} :
        call = Ready("set_options",
                     [opt |-> ParsedOpt(arg_matches, presets, no_gitconfig),
                      git_config |-> git_config,
                      arg_matches |-> arg_matches])

CallSetOptions ==
    /\ call.fn = "set_options"
    /\ call.pc = "ready"
    /\ call' = [call EXCEPT
                  !.result = set_options(call.args.opt, call.args.git_config,
                                         call.args.arg_matches),
                  !.pc = "done"]
    /\ UNCHANGED <<svars, fvars, pvars>>

SetOptionsNext == CallSetOptions

InitSetOptions == SetOptionsInit /\ SuperIdle /\ FormatIdle /\ PainterIdle

SpecSetOptions == InitSetOptions /\ [][SetOptionsNext]_vars

(***************************************************************************)
(* The macros set_options! and set_delta_options! of cli.rs: the lookup of *)
(* an option in the section of the theme and in the main section of the    *)
(* git config.                                                             *)
(***************************************************************************)
\* the options of the list the macros are applied to in the model
ThemeOptionList == <<"plus-style", "zero-style">>

\* $opt.$field_ident for the field of the option
ThemeField(o, opt_name) ==
    CASE opt_name = "plus-style" -> o.plus_style
      [] opt_name = "zero-style" -> o.zero_style

\* $opt.$field_ident = value
SetThemeField(o, opt_name, value) ==
    CASE opt_name = "plus-style" -> [o EXCEPT !.plus_style = value]
      [] opt_name = "zero-style" -> [o EXCEPT !.zero_style = value]

\* git2::Config::get_str on the snapshot: Ok with the value of the key,
\* or Err
get_str(git_config, key) ==
    IF key \in DOMAIN git_config THEN Some(git_config[key]) ELSE None

RECURSIVE value_from_keys(_, _)
\* the loop of value_from_git_config over the keys
value_from_keys(keys, git_config) ==
    IF keys = <<>> THEN None
    ELSE IF get_str(git_config, Head(keys)) # None
    THEN get_str(git_config, Head(keys))
    ELSE value_from_keys(Tail(keys), git_config)

\* cli::value_from_git_config
value_from_git_config(keys, git_config) ==
    IF git_config # None THEN value_from_keys(keys, git_config[1]) ELSE None

make_git_config_keys_main_first(key, theme) ==
    IF theme # None
    THEN <<<<"delta", key>>, <<"delta", theme[1], key>>>>
    ELSE <<<<"delta", key>>>>

\* cli::make_git_config_keys_for_delta
make_git_config_keys_for_delta(key, theme) ==
    IF theme # None
    THEN <<<<"delta", theme[1], key>>, <<"delta", key>>>>
    ELSE <<<<"delta", key>>>>

\* Option::unwrap_or_else
unwrap_or_else(value, default) == IF value # None THEN value[1] ELSE default

\* the body of the macro set_options! of cli.rs for one option of its list
cli_set_option(o, opt_name, keys, default, git_config, arg_matches) ==
    IF arg_matches = None \/ ~user_supplied_option(opt_name, arg_matches[1])
    THEN SetThemeField(o, opt_name,
                       unwrap_or_else(value_from_git_config(keys, git_config), default))
    ELSE o

RECURSIVE cli_set_options_from(_, _, _, _, _)
\* the macro set_options! of cli.rs from the i-th option of the list on,
\* each with the keys of make_git_config_keys_for_delta and one default
cli_set_options_from(i, o, default, git_config, arg_matches) ==
    IF i > Len(ThemeOptionList) THEN o
    ELSE cli_set_options_from(
             i + 1,
             cli_set_option(o, ThemeOptionList[i],
                            make_git_config_keys_for_delta(ThemeOptionList[i], o.theme),
                            default, git_config, arg_matches),
             default, git_config, arg_matches)

\* the macro set_options! of cli.rs
cli_set_options(o, default, git_config, arg_matches) ==
    cli_set_options_from(1, o, default, git_config, arg_matches)

RECURSIVE set_delta_options_from(_, _, _, _)
\* the macro set_delta_options! from the i-th option of the list on: the
\* default of an option is the value its field has
set_delta_options_from(i, o, git_config, arg_matches) ==
    IF i > Len(ThemeOptionList) THEN o
    ELSE set_delta_options_from(
             i + 1,
             cli_set_option(o, ThemeOptionList[i],
                            make_git_config_keys_for_delta(ThemeOptionList[i], o.theme),
                            ThemeField(o, ThemeOptionList[i]), git_config, arg_matches),
             git_config, arg_matches)

\* the macro set_delta_options!
set_delta_options(o, git_config, arg_matches) ==
    set_delta_options_from(1, o, git_config, arg_matches)

(***************************************************************************)
(* Specification SpecThemeOptions: the two macros, value_from_git_config   *)
(* and make_git_config_keys_for_delta applied to every command line over   *)
(* the options of ThemeOptionList, every theme of Themes and every git     *)
(* config over the entries listed here.                                    *)
(***************************************************************************)
Themes == {None, Some("t"), Some("u")}

\* the entries a git config of the model may hold: a key and its value
ThemeConfigEntries ==
    {<<<<"delta", "plus-style">>, "main plus">>,
     <<<<"delta", "t", "plus-style">>, "theme t plus">>,
     <<<<"delta", "u", "plus-style">>, "theme u plus">>,
     <<<<"delta", "zero-style">>, "main zero">>,
     <<<<"delta", "t", "zero-style">>, "theme t zero">>}

ThemeGitConfigs ==
    {None} \cup {Some(ConfigOf(entries)) : entries \in SUBSET ThemeConfigEntries}

ThemeOptionNames == {ThemeOptionList[i] : i \in 1..Len(ThemeOptionList)}

\* arg_matches of the macros: None, or the options given on the command
\* line
ThemeArgMatches == {None} \cup {Some(given) : given \in SUBSET ThemeOptionNames}

\* opt as structopt leaves it for the options given on the command line
ThemeOpt(theme, arg_matches) ==
    [theme |-> theme,
     plus_style |->
         IF arg_matches # None /\ "plus-style" \in arg_matches[1]
         THEN "command line plus" ELSE "syntax auto",
     zero_style |->
         IF arg_matches # None /\ "zero-style" \in arg_matches[1]
         THEN "command line zero" ELSE "syntax normal"]

\* the keys value_from_git_config is called with in the model
KeyLists ==
    {make_git_config_keys_for_delta(n, theme) : n \in ThemeOptionNames, theme \in Themes}
    \cup {<<>>, <<<<"delta", "u", "zero-style">>, <<"delta", "zero-style">>,
               <<"delta", "t", "zero-style">>>>}

ThemeOptionsInit ==
    \/ \E fn \in {"set_delta_options!", "set_options!"}, theme \in Themes,
          arg_matches \in ThemeArgMatches, git_config \in ThemeGitConfigs :
         call = Ready(fn, [opt |-> ThemeOpt(theme, arg_matches),
                           default |-> "given default",
                           git_config |-> git_config,
                           arg_matches |-> arg_matches])
    \/ \E keys \in KeyLists, git_config \in ThemeGitConfigs :
         call = Ready("value_from_git_config",
                      [keys |-> keys, git_config |-> git_config])
    \/ \E key \in ThemeOptionNames, theme \in Themes :
         call = Ready("make_git_config_keys_for_delta", [key |-> key, theme |-> theme])

CallSetDeltaOptions ==
    /\ call.fn = "set_delta_options!"
    /\ call.pc = "ready"
    /\ call' = [call EXCEPT
                  !.result = set_delta_options(call.args.opt, call.args.git_config,
                                               call.args.arg_matches),
                  !.pc = "done"]
    /\ UNCHANGED <<svars, fvars, pvars>>

CallCliSetOptions ==
    /\ call.fn = "set_options!"
    /\ call.pc = "ready"
    /\ call' = [call EXCEPT
                  !.result = cli_set_options(call.args.opt, call.args.default,
                                             call.args.git_config,
                                             call.args.arg_matches),
                  !.pc = "done"]
    /\ UNCHANGED <<svars, fvars, pvars>>

CallValueFromGitConfig ==
    /\ call.fn = "value_from_git_config"
    /\ call.pc = "ready"
    /\ call' = [call EXCEPT
                  !.result = value_from_git_config(call.args.keys, call.args.git_config),
                  !.pc = "done"]
    /\ UNCHANGED <<svars, fvars, pvars>>

CallMakeGitConfigKeys ==
    /\ call.fn = "make_git_config_keys_for_delta"
    /\ call.pc = "ready"
    /\ call' = [call EXCEPT
                  !.result = make_git_config_keys_for_delta(call.args.key,
                                                            call.args.theme),
                  !.pc = "done"]
    /\ UNCHANGED <<svars, fvars, pvars>>

ThemeOptionsNext ==
    \/ CallSetDeltaOptions
    \/ CallCliSetOptions
    \/ CallValueFromGitConfig
    \/ CallMakeGitConfigKeys

InitThemeOptions == ThemeOptionsInit /\ SuperIdle /\ FormatIdle /\ PainterIdle

SpecThemeOptions == InitThemeOptions /\ [][ThemeOptionsNext]_vars

(***************************************************************************)
(* Specification SpecFillStep: the background fill of paint_lines applied  *)
(* to a composed line, and again to what it gave.                          *)
(***************************************************************************)
ComposedTokens == {Ch("a"), ANSI_SGR_RESET, <<"sgr", MinusStyle.ansi_term_style>>}

ComposedLines == SeqsUpTo(ComposedTokens, MaxComposedLen)

FillStepInit ==
    call \in {Ready("extend_background", [line |-> l]) : l \in ComposedLines}

FillOnce ==
    /\ call.fn = "extend_background"
    /\ call.pc = "ready"
    /\ call' = [call EXCEPT !.result = [once |-> extend_background(call.args.line)],
                            !.pc = "once"]
    /\ UNCHANGED <<svars, fvars, pvars>>

FillTwice ==
    /\ call.fn = "extend_background"
    /\ call.pc = "once"
    /\ call' = [call EXCEPT !.result = [once  |-> call.result.once,
                                        twice |-> extend_background(call.result.once)],
                            !.pc = "twice"]
    /\ UNCHANGED <<svars, fvars, pvars>>

FillStepNext == FillOnce \/ FillTwice

InitFillStep == FillStepInit /\ SuperIdle /\ FormatIdle /\ PainterIdle

SpecFillStep == InitFillStep /\ [][FillStepNext]_vars

(***************************************************************************)
(* Specification SpecSyntaxSections: get_syntax_style_sections_for_lines   *)
(* called for some lines in each of the states it is defined for.          *)
(***************************************************************************)
HunkStates == {"HunkMinus", "HunkZero", "HunkPlus", "HunkHeader"}

SyntaxSectionsInit ==
    call \in {Ready("get_syntax_style_sections_for_lines",
                    [lines |-> ls, state |-> st, opt |-> o]) :
                 ls \in SeqsUpTo(Lines, MaxLines), st \in HunkStates, o \in Opts}

CallGetSyntaxStyleSections ==
    /\ call.fn = "get_syntax_style_sections_for_lines"
    /\ call.pc = "ready"
    /\ LET a   == call.args
           cfg == get_config(a.opt, TRUE)
       IN  call' = [call EXCEPT
                      !.result =
                          [line_sections |->
                               get_syntax_style_sections_for_lines(a.lines, a.state, cfg),
                           highlighted |->
                               highlighter_invocations(a.lines, a.state, cfg)],
                      !.pc = "done"]
    /\ UNCHANGED <<svars, fvars, pvars>>

SyntaxSectionsNext == CallGetSyntaxStyleSections

InitSyntaxSections == SyntaxSectionsInit /\ SuperIdle /\ FormatIdle /\ PainterIdle

SpecSyntaxSections == InitSyntaxSections /\ [][SyntaxSectionsNext]_vars

(***************************************************************************)
(* Specification SpecShouldCompute: should_compute_syntax_highlighting     *)
(* called in every state named in the source, with and without a theme,    *)
(* for every choice of the styles that ask for syntax highlighting.        *)
(***************************************************************************)
OtherStates == {"CommitMeta", "FileMeta"}

\* the styles of the config that have is_syntax_highlighted
StyleFields ==
    {"minus_style", "minus_emph_style", "minus_non_emph_style", "zero_style",
     "plus_style", "plus_emph_style", "plus_non_emph_style"}

\* the style with is_syntax_highlighted as the field is in highlighted or
\* not
Highlighting(style, field, highlighted) ==
    [style EXCEPT !.is_syntax_highlighted = field \in highlighted]

\* a config with the theme, whose styles in highlighted, and no others,
\* have is_syntax_highlighted
ConfigHighlighting(theme, highlighted) ==
    [get_config([DefaultOpt EXCEPT !.theme = theme], TRUE) EXCEPT
        !.minus_style = Highlighting(@, "minus_style", highlighted),
        !.minus_emph_style = Highlighting(@, "minus_emph_style", highlighted),
        !.minus_non_emph_style = Highlighting(@, "minus_non_emph_style", highlighted),
        !.zero_style = Highlighting(@, "zero_style", highlighted),
        !.plus_style = Highlighting(@, "plus_style", highlighted),
        !.plus_emph_style = Highlighting(@, "plus_emph_style", highlighted),
        !.plus_non_emph_style = Highlighting(@, "plus_non_emph_style", highlighted)]

ShouldComputeInit ==
    \E state \in HunkStates \cup OtherStates, theme \in {"None", "Some"},
       highlighted \in SUBSET StyleFields :
      call = Ready("should_compute_syntax_highlighting",
                   [state |-> state, highlighted |-> highlighted,
                    config |-> ConfigHighlighting(theme, highlighted)])

CallShouldCompute ==
    /\ call.fn = "should_compute_syntax_highlighting"
    /\ call.pc = "ready"
    /\ call' = [call EXCEPT
                  !.result = should_compute_outcome(call.args.state, call.args.config),
                  !.pc = "done"]
    /\ UNCHANGED <<svars, fvars, pvars>>

ShouldComputeNext == CallShouldCompute

InitShouldCompute == ShouldComputeInit /\ SuperIdle /\ FormatIdle /\ PainterIdle

SpecShouldCompute == InitShouldCompute /\ [][ShouldComputeNext]_vars

(***************************************************************************)
(* Specification SpecDiffSections: get_diff_style_sections called for      *)
(* some buffered lines, with what infer_edits returns for them, under      *)
(* configurations whose non-emph styles differ from the emph styles or     *)
(* equal them.                                                             *)
(***************************************************************************)
\* a Config with the two non-emph styles set
ConfigWith(minus_non_emph_style, plus_non_emph_style) ==
    [get_config(DefaultOpt, TRUE) EXCEPT !.minus_non_emph_style = minus_non_emph_style,
                                         !.plus_non_emph_style = plus_non_emph_style]

DiffSectionsInit ==
    \E minus \in SeqsUpTo(Lines, MaxLines), plus \in SeqsUpTo(Lines, MaxLines),
       minus_non_emph_style \in {MinusNonEmphStyle, MinusEmphStyle},
       plus_non_emph_style \in {PlusStyle, PlusEmphStyle} :
      \E edits \in infer_edits(minus, plus, MinusStyle, MinusEmphStyle,
                                PlusStyle, PlusEmphStyle) :
        call = Ready("get_diff_style_sections",
                     [minus_lines |-> minus,
                      plus_lines |-> plus,
                      minus_non_emph_style |-> minus_non_emph_style,
                      plus_non_emph_style |-> plus_non_emph_style,
                      edits |-> edits])

CallGetDiffStyleSections ==
    /\ call.fn = "get_diff_style_sections"
    /\ call.pc = "ready"
    /\ LET a == call.args
       IN  call' = [call EXCEPT
                      !.result = get_diff_style_sections(
                                     a.edits,
                                     ConfigWith(a.minus_non_emph_style,
                                                a.plus_non_emph_style)),
                      !.pc = "done"]
    /\ UNCHANGED <<svars, fvars, pvars>>

DiffSectionsNext == CallGetDiffStyleSections

InitDiffSections == DiffSectionsInit /\ SuperIdle /\ FormatIdle /\ PainterIdle

SpecDiffSections == InitDiffSections /\ [][DiffSectionsNext]_vars

(***************************************************************************)
(* What the claims about superimpose_style_sections speak of, computed     *)
(* from the two input partitions position by position.                     *)
(***************************************************************************)
\* the text a partition covers
TextOf(sections) == Flatten([i \in 1..Len(sections) |-> sections[i][2]])

RECURSIVE StyleAt(_, _)
\* the style of the section that holds character position i
StyleAt(sections, i) ==
    IF i <= Len(Head(sections)[2]) THEN Head(sections)[1]
    ELSE StyleAt(Tail(sections), i - Len(Head(sections)[2]))

\* the number of positions the two partitions share
ZipLen == Min(Len(TextOf(sections_1)), Len(TextOf(sections_2)))

\* the maximal blocks of consecutive shared positions with one
\* (syntax style, diff style) pair, in order: each with its pair and text
Blocks ==
    LET n      == ZipLen
        text   == SubSeq(TextOf(sections_1), 1, n)
        pairs  == [i \in 1..n |-> <<StyleAt(sections_1, i), StyleAt(sections_2, i)>>]
        starts == {i \in 1..n : i = 1 \/ pairs[i] # pairs[i - 1]}
        first(k) == CHOOSE i \in starts : Cardinality({j \in starts : j < i}) = k - 1
    IN  [k \in 1..Cardinality(starts) |->
            [pair |-> pairs[first(k)],
             text |-> SubSeq(text, first(k),
                             IF k = Cardinality(starts) THEN n ELSE first(k + 1) - 1)]]

ZipText == SubSeq(TextOf(sections_1), 1, ZipLen)

Runs == superimposed.value

RunTexts == Flatten([k \in 1..Len(Runs) |-> Runs[k][2]])

Returned == s_pc = "done" /\ ~superimposed.panicked

SameText == TextOf(sections_1) = TextOf(sections_2)

EndsWithNL(text) == Len(text) > 0 /\ text[Len(text)] = NL

\* C1 (as claimed): partitions whose texts differ in a character or only
\* in length always make the call panic
C1_MismatchAlwaysPanics ==
    (s_pc = "done" /\ ~SameText) => superimposed.panicked

\* C2: for two partitions of one line, the texts of the returned runs
\* concatenate to the line, or to the line without its one trailing
\* terminator
C2_TextPreserved ==
    (s_pc = "done" /\ SameText) =>
        /\ ~superimposed.panicked
        /\ LET line == TextOf(sections_1)
           IN  \/ RunTexts = line
               \/ EndsWithNL(line) /\ RunTexts = SubSeq(line, 1, Len(line) - 1)

C2_Witness ==
    /\ s_pc = "done" /\ SameText
    /\ Len(sections_1) = 1 /\ Len(sections_2) = 3
    /\ TextOf(sections_1) = <<NL, "a", NL>>
    /\ RunTexts = <<NL, "a">>

\* C3: every returned run carries its diff style, with the foreground
\* replaced by to_ansi_color of the syntax foreground exactly when the diff
\* style is syntax highlighted and the syntax style is not the null style
C3_StyleResolution ==
    Returned =>
        LET blocks == Blocks
        IN  \A k \in 1..Len(Runs) :
            LET syn  == blocks[k].pair[1]
                diff == blocks[k].pair[2]
                got  == Runs[k][1]
            IN  /\ got.ansi_term_style.background = diff.ansi_term_style.background
                /\ got.ansi_term_style.attrs = diff.ansi_term_style.attrs
                /\ got.is_emph = diff.is_emph
                /\ got.is_omitted = diff.is_omitted
                /\ got.is_raw = diff.is_raw
                /\ got.is_syntax_highlighted = diff.is_syntax_highlighted
                /\ got.decoration_style = diff.decoration_style
                /\ got.ansi_term_style.foreground =
                       IF diff.is_syntax_highlighted /\ syn # null_syntect_style
                       THEN to_ansi_color(syn.foreground, call_true_color)
                       ELSE diff.ansi_term_style.foreground

C3_Witness ==
    /\ Returned /\ Len(Runs) = 3 /\ ~call_true_color
    /\ Runs[1][1] = [SYNTAX_HIGHLIGHTED_STYLE EXCEPT
                        !.ansi_term_style.foreground = <<"Fixed", "BLACK">>]
    /\ Runs[2][1] = SYNTAX_HIGHLIGHTED_STYLE
    /\ Runs[3][1] = Runs[1][1]

\* C4: one returned run per maximal block of positions with equal
\* (syntax style, diff style), in order, each holding its block's characters
C4_OneRunPerBlock ==
    Returned =>
        LET blocks == Blocks
        IN  /\ Len(Runs) = Len(blocks)
            /\ \A k \in 1..Len(Runs) :
                  \/ Runs[k][2] = blocks[k].text
                  \/ k = Len(Runs) /\ Runs[k][2] \o <<NL>> = blocks[k].text

C4_Witness ==
    /\ Returned
    /\ sections_1 = <<<<SYNTAX_STYLE, <<"a", "a", NL>>>>>>
    /\ sections_2 = <<<<SYNTAX_HIGHLIGHTED_STYLE, <<"a">>>>,
                      <<SYNTAX_HIGHLIGHTED_STYLE, <<"a">>>>,
                      <<NON_SYNTAX_HIGHLIGHTED_STYLE, <<NL>>>>>>
    /\ Len(Runs) = 2 /\ Runs[1][2] = <<"a", "a">>

\* C5: exactly one terminator is removed from the final run when the text
\* ends with one and nothing otherwise; no other run is shortened
C5_OneTerminatorStripped ==
    Returned =>
        LET blocks == Blocks
            last   == blocks[Len(Runs)].text
        IN  /\ Len(Runs) = Len(blocks)
            /\ \A k \in 1..(Len(Runs) - 1) : Runs[k][2] = blocks[k].text
            /\ Len(Runs) > 0 =>
                  Runs[Len(Runs)][2] =
                      IF EndsWithNL(ZipText) THEN SubSeq(last, 1, Len(last) - 1) ELSE last
            /\ Len(RunTexts) = IF EndsWithNL(ZipText) THEN ZipLen - 1 ELSE ZipLen

C5_Witness ==
    /\ Returned /\ SameText
    /\ TextOf(sections_1) = <<"a", NL, NL>>
    /\ Len(Runs) = 1 /\ Runs[1][2] = <<"a", NL>>
\* C10 (as claimed): the number text is the digits centred in exactly 4
\* columns, the odd blank on the right, or 4 blanks for an absent number:
\* always exactly 4 characters
C10_NumberTextFillsFourColumns ==
    f_pc = "done" =>
        /\ Len(f_text) = 4
        /\ f_number = None => f_text = <<" ", " ", " ", " ">>
        /\ f_number # None =>
              \E left, right \in 0..4 :
                 /\ right \in {left, left + 1}
                 /\ f_text = Blanks(left) \o Decimal(f_number[1]) \o Blanks(right)

\* C10 (what the code returns): a number of at most 4 digits is centred in exactly 4
\* columns, the odd blank on the right; a longer number is returned as its
\* digits alone, wider than the column; an absent number is 4 blanks
C10_NumberTextPaddedToFour ==
    f_pc = "done" =>
        /\ f_number = None => f_text = <<" ", " ", " ", " ">>
        /\ f_number # None =>
              LET digits == Decimal(f_number[1])
              IN  IF f_number[1] < 10000
                  THEN /\ Len(f_text) = 4
                       /\ \E left \in 0..4 :
                             \/ f_text = Blanks(left) \o digits \o Blanks(left)
                             \/ f_text = Blanks(left) \o digits \o Blanks(left + 1)
                  ELSE f_text = digits /\ Len(f_text) > 4

C10_Witness ==
    /\ f_pc = "done"
    /\ f_number = Some(7)
    /\ f_text = <<" ", "7", " ", " ">>

(***************************************************************************)
(* What the claims about the Painter speak of.                             *)
(***************************************************************************)
IsPrefix(a, b) == Len(a) <= Len(b) /\ SubSeq(b, 1, Len(a)) = a

\* the characters of a token sequence, the escape sequences left out
RECURSIVE VisibleChars(_)
VisibleChars(tokens) ==
    IF tokens = <<>> THEN <<>>
    ELSE (IF Head(tokens)[1] = "c" THEN <<Head(tokens)[2]>> ELSE <<>>)
         \o VisibleChars(Tail(tokens))

\* the terminated lines of a text, each without its terminator
RECURSIVE SplitLines(_, _)
SplitLines(chars, current) ==
    IF chars = <<>> THEN <<>>
    ELSE IF Head(chars) = NL THEN <<current>> \o SplitLines(Tail(chars), <<>>)
    ELSE SplitLines(Tail(chars), Append(current, Head(chars)))

VisibleLines(tokens) == SplitLines(VisibleChars(tokens), <<>>)

\* what a reader sees of one flushed line: the two gutter columns when line
\* numbers are shown, the side's marker, and the line without its first
\* column and without its terminator
ExpectedVisible(e) ==
    LET minus   == get_line_number_components(e.numbers[1], config.number_minus_format)
        plus    == get_line_number_components(e.numbers[2], config.number_plus_format)
        content == IF EndsWithNL(e.line) THEN SubSeq(e.line, 1, Len(e.line) - 1) ELSE e.line
    IN  (IF config.show_line_numbers
         THEN minus.before \o minus.number \o minus.after
              \o plus.before \o plus.number \o plus.after
         ELSE <<>>)
        \o (IF e.side = "minus" THEN config.minus_line_marker ELSE config.plus_line_marker)
        \o (IF content = <<>> THEN <<>> ELSE Tail(content))

\* the entries of the buffered lines, as a flush that starts now sees them
BufferedEntries ==
    [i \in 1..Len(minus_lines) |->
        [side |-> "minus", line |-> minus_lines[i],
         numbers |-> <<Some(minus_line_number + i - 1), None>>]]
    \o [i \in 1..Len(plus_lines) |->
        [side |-> "plus", line |-> plus_lines[i],
         numbers |-> <<None, Some(plus_line_number + i - 1)>>]]

\* what this step appended to the output buffer
Appended == SubSeq(output_buffer', Len(output_buffer) + 1, Len(output_buffer'))

\* this step is a flush of at least one buffered line
FlushStep == Len(flushed') > Len(flushed)

\* the flush of this step returned having rendered every buffered line and
\* cleared both buffers
FlushedAll ==
    /\ aborted' = "no"
    /\ minus_lines' = <<>> /\ plus_lines' = <<>>
    /\ IsPrefix(output_buffer, output_buffer')
    /\ Len(VisibleLines(Appended)) = Len(minus_lines) + Len(plus_lines)
    /\ \A i \in 1..Len(BufferedEntries) :
          \E j \in 1..Len(VisibleLines(Appended)) :
             VisibleLines(Appended)[j] = ExpectedVisible(BufferedEntries[i])

\* C6 (as claimed): a flush either returns having rendered every buffered
\* line and cleared both buffers, or aborts on a text mismatch
C6_FlushAllOrMismatch ==
    [][FlushStep => (FlushedAll \/ aborted' = "mismatch")]_vars

\* C6 (amended): a flush either returns having rendered every buffered line
\* and cleared both buffers, or aborts, on a text mismatch or on a gutter
\* format without placeholder; it never returns with part of the lines
\* rendered or a buffer non-empty
C6_FlushAllOrAbort ==
    [][FlushStep => (FlushedAll \/ aborted' \in {"mismatch", "template"})]_vars

C6_Witness ==
    /\ aborted = "no"
    /\ minus_lines = <<>> /\ plus_lines = <<>>
    /\ Len(flushed) = 3
    /\ flushed[1].side = "minus" /\ flushed[3].side = "plus"
    /\ Len(VisibleLines(output_buffer)) = 3

SideEntries(side) == SelectSeq(flushed, LAMBDA e : e.side = side)

\* C7: each counter equals the number of lines flushed so far on its side,
\* the lines of a side are numbered 0, 1, 2, ... in flush order, and no
\* step decreases a counter or changes it other than by the number of
\* lines it flushes on that side
C7_CountersCountFlushedLines ==
    /\ [](/\ minus_line_number = Len(SideEntries("minus"))
          /\ plus_line_number = Len(SideEntries("plus"))
          /\ \A k \in 1..Len(SideEntries("minus")) :
                SideEntries("minus")[k].numbers = <<Some(k - 1), None>>
          /\ \A k \in 1..Len(SideEntries("plus")) :
                SideEntries("plus")[k].numbers = <<None, Some(k - 1)>>)
    /\ [][/\ minus_line_number' =
               minus_line_number + (IF FlushStep THEN Len(minus_lines) ELSE 0)
          /\ plus_line_number' =
               plus_line_number + (IF FlushStep THEN Len(plus_lines) ELSE 0)]_vars

C7_Witness ==
    /\ minus_line_number = 1 /\ plus_line_number = 2
    /\ Len(flushed) = 3
    /\ flushed[1].side = "plus" /\ flushed[2].side = "minus" /\ flushed[3].side = "plus"
    /\ flushed[3].numbers = <<None, Some(1)>>

\* C8: the lines the sink and the output buffer hold are the flushed lines
\* in flush order, within one flush the minus lines in buffer order and
\* then the plus lines in buffer order (all of them unless a flush aborted)
C8_RenderOrder ==
    LET seen     == VisibleLines(writer \o output_buffer)
        expected == [i \in 1..Len(flushed) |-> ExpectedVisible(flushed[i])]
    IN  /\ IsPrefix(seen, expected)
        /\ aborted = "no" => seen = expected

C8_Witness ==
    /\ aborted = "no" /\ opt.keep_plus_minus_markers
    /\ minus_lines = <<>> /\ plus_lines = <<>>
    /\ Len(flushed) = 3
    /\ flushed[1].side = "minus" /\ flushed[1].line = <<NL>>
    /\ flushed[2].side = "minus" /\ flushed[2].line = <<" ", "a", NL>>
    /\ flushed[3].side = "plus"
    /\ VisibleLines(writer \o output_buffer) = <<<<"-">>, <<"-", "a">>, <<"+", "a">>>>

\* C9: a step that changes the sink appends the whole output buffer to it
\* and leaves the buffer empty; every other step leaves the sink alone and
\* only appends to the output buffer
C9_OutputBufferProtocol ==
    [][/\ writer' # writer => (writer' = writer \o output_buffer /\ output_buffer' = <<>>)
       /\ writer' = writer => IsPrefix(output_buffer, output_buffer')
       /\ FlushStep => (writer' = writer /\ IsPrefix(output_buffer, output_buffer'))]_vars

C9_Witness ==
    /\ ~write_failed /\ aborted = "no"
    /\ Len(VisibleLines(writer)) = 2
    /\ Len(VisibleLines(output_buffer)) = 1
    /\ Len(flushed) = 3



(***************************************************************************)
(* The statements about get_line_number_components.                        *)
(***************************************************************************)
GutterReturned ==
    /\ call.fn = "get_line_number_components"
    /\ call.pc = "done"

Placeholder == <<"%", "l", "n">>

\* C11 (as claimed): the call fails for a format with no %ln and for a
\* format with more than one %ln, and returns components only for a format
\* with exactly one
C11_FailsUnlessOnePlaceholder ==
    GutterReturned =>
        (call.result.panicked
            <=> Cardinality(PlaceholderStarts(call.args.number_format)) # 1)

\* C12 (as claimed): for a format with exactly one %ln the call returns the
\* literal text before and after the placeholder, whatever the number:
\* before + "%ln" + after is the format
C12_GutterRoundTrip ==
    (GutterReturned /\ Cardinality(PlaceholderStarts(call.args.number_format)) = 1) =>
        /\ ~call.result.panicked
        /\ call.result.before \o Placeholder \o call.result.after
               = call.args.number_format
        /\ \A n \in GutterNumbers :
              LET other == get_line_number_components(n, call.args.number_format)
              IN  /\ other.before = call.result.before
                  /\ other.after = call.result.after

(***************************************************************************)
(* The statements about paint_lines.                                       *)
(***************************************************************************)
\* the call of paint_lines returned
Painted ==
    /\ call.fn = "paint_lines"
    /\ call.pc = "done"
    /\ call.result.aborted = "no"

\* the number of gutter strings at the front of ansi_strings
GutterCount ==
    IF call.args.opt.show_line_numbers /\ call.args.line_numbers # <<None, None>>
    THEN 6 ELSE 0

\* the fill style the line is due
DueFill ==
    IF Cardinality({call.args.diff_sections[i][1] :
                       i \in 1..Len(call.args.diff_sections)}) >= 2
    THEN call.args.non_emph_style ELSE call.args.style

FillCount == IF DueFill.ansi_term_style.background # NoColor THEN 1 ELSE 0

\* the strings of ansi_strings between the gutter and the fill
ContentOf(strings) == SubSeq(strings, GutterCount + 1, Len(strings) - FillCount)

\* the characters of the first n strings
RECURSIVE CharsOfStrings(_, _)
CharsOfStrings(strings, n) ==
    IF n = 0 THEN <<>> ELSE CharsOfStrings(strings, n - 1) \o strings[n].string

\* the line without its trailing terminator
Unterminated(line) ==
    IF EndsWithNL(line) THEN SubSeq(line, 1, Len(line) - 1) ELSE line

\* all but the prefix part of C13: where the prefix goes, its style, the
\* later sections, and what a reader sees
PrefixPlacement(content, sections) ==
    IF call.args.prefix # <<>>
    THEN /\ Len(content) = Len(sections) + 1
         /\ content[1] = Paint(sections[1][1].ansi_term_style, call.args.prefix)
         /\ content[2].style = sections[1][1].ansi_term_style
         /\ \A i \in 2..Len(sections) :
               content[i + 1] = Paint(sections[i][1].ansi_term_style, sections[i][2])
         /\ VisibleChars(call.result.out)
               = CharsOfStrings(call.result.ansi_strings, GutterCount)
                 \o call.args.prefix
                 \o (IF Unterminated(call.args.line) = <<>> THEN <<>>
                     ELSE Tail(Unterminated(call.args.line)))
                 \o <<NL>>
    ELSE /\ Len(content) = Len(sections)
         /\ \A i \in 1..Len(sections) :
               content[i] = Paint(sections[i][1].ansi_term_style, sections[i][2])
         /\ VisibleChars(call.result.out)
               = CharsOfStrings(call.result.ansi_strings, GutterCount)
                 \o Unterminated(call.args.line) \o <<NL>>

\* C13 (as claimed): with a prefix, the prefix is emitted once, before the
\* content, in the style of the first section, and the first section
\* always loses exactly one character; no later section loses one; with
\* an empty prefix nothing is emitted or removed
C13_PrefixReplacesFirstCharacter ==
    Painted =>
        LET content  == ContentOf(call.result.ansi_strings)
            sections == call.result.sections
        IN  /\ PrefixPlacement(content, sections)
            /\ call.args.prefix # <<>> =>
                  /\ Len(content[2].string) = Len(sections[1][2]) - 1
                  /\ content[2].string
                        = SubSeq(sections[1][2], 2, Len(sections[1][2]))

\* C13 (amended): as claimed, but the first section loses its first
\* character only when its text is not empty; the text of a line that is
\* its terminator alone is empty and stays so
C13_PrefixReplacesFirstCharacterIfAny ==
    Painted =>
        LET content  == ContentOf(call.result.ansi_strings)
            sections == call.result.sections
        IN  /\ PrefixPlacement(content, sections)
            /\ call.args.prefix # <<>> =>
                  content[2].string
                     = (IF sections[1][2] = <<>> THEN <<>> ELSE Tail(sections[1][2]))

C13_Witness ==
    /\ Painted
    /\ call.args.prefix = <<"+">>
    /\ call.args.line = <<" ", "a", NL>>
    /\ Len(call.result.sections) = 2
    /\ VisibleChars(call.result.out) = <<"+", "a", NL>>

\* the configuration of the call
CallConfig == get_config(call.args.opt, TRUE)

\* whether the background of the call is to extend to the terminal width
Extend ==
    IF call.args.background_color_extends_to_terminal_width # None
    THEN call.args.background_color_extends_to_terminal_width[1]
    ELSE CallConfig.background_color_extends_to_terminal_width

\* C14: with extend and a fill background, the line appended is the
\* composed line less one trailing reset, then ESC[K, ESC[0m and the
\* newline; otherwise it is the composed line and the newline, without ESC[K
C14_WidthExtension ==
    Painted =>
        LET line == ANSIStrings(call.result.ansi_strings)
            out  == call.result.out
        IN  IF Extend /\ DueFill.ansi_term_style.background # NoColor
            THEN out = (IF line # <<>> /\ line[Len(line)] = ANSI_SGR_RESET
                        THEN SubSeq(line, 1, Len(line) - 1) ELSE line)
                       \o <<ANSI_CSI_ERASE_IN_LINE, ANSI_SGR_RESET, Ch(NL)>>
            ELSE /\ out = line \o <<Ch(NL)>>
                 /\ \A i \in 1..Len(out) : out[i] # ANSI_CSI_ERASE_IN_LINE

C14_Witness ==
    /\ Painted
    /\ call.args.background_color_extends_to_terminal_width = None
    /\ call.args.opt.width = None
    /\ call.args.style = MinusStyle
    /\ Len(call.result.out) >= 4
    /\ SubSeq(call.result.out, Len(call.result.out) - 2, Len(call.result.out))
          = <<ANSI_CSI_ERASE_IN_LINE, ANSI_SGR_RESET, Ch(NL)>>
    /\ call.result.out[Len(call.result.out) - 3] # ANSI_SGR_RESET

\* C16: the fill style is the base style when the diff sections carry one
\* style and the non-emph style when they carry two or more; one empty
\* string in the fill style ends ansi_strings exactly when the fill style
\* has a background
C16_RightFill ==
    Painted =>
        LET strings == call.result.ansi_strings
            content == Len(call.result.sections)
                       + (IF call.args.prefix # <<>> THEN 1 ELSE 0)
        IN  IF DueFill.ansi_term_style.background # NoColor
            THEN /\ Len(strings) = GutterCount + content + 1
                 /\ strings[Len(strings)] = Paint(DueFill.ansi_term_style, <<>>)
            ELSE Len(strings) = GutterCount + content

\* two sections of one style, a base style and a non-emph style that
\* differ: the fill is the base style
C16_Witness ==
    /\ Painted
    /\ Len(call.args.diff_sections) = 2
    /\ call.args.diff_sections[1][1] = call.args.diff_sections[2][1]
    /\ call.args.style = MinusStyle
    /\ call.args.non_emph_style = MinusNonEmphStyle
    /\ call.result.ansi_strings[Len(call.result.ansi_strings)]
          = Paint(MinusStyle.ansi_term_style, <<>>)

\* C17: the six gutter strings come first, minus column then plus column,
\* each before / number / after in the format, number and format style,
\* exactly when line numbers are shown and one of the two numbers is
\* defined; a minus line of a flush has 4 blanks in the plus column, a plus
\* line 4 blanks in the minus column
C17_GutterEmission ==
    Painted =>
        LET strings == call.result.ansi_strings
            a       == call.args
            content == Len(call.result.sections)
                       + (IF a.prefix # <<>> THEN 1 ELSE 0)
            before(f) == SubSeq(f, 1, Lowest(PlaceholderStarts(f)) - 1)
            after(f)  == SubSeq(f, Lowest(PlaceholderStarts(f)) + 3, Len(f))
        IN  IF a.opt.show_line_numbers
               /\ (a.line_numbers[1] # None \/ a.line_numbers[2] # None)
            THEN /\ Len(strings) = 6 + content + FillCount
                 /\ strings[1] = Paint(CallConfig.number_minus_format_style.ansi_term_style,
                                       before(a.opt.number_minus_format))
                 /\ strings[2].style = CallConfig.number_minus_style.ansi_term_style
                 /\ strings[3] = Paint(CallConfig.number_minus_format_style.ansi_term_style,
                                       after(a.opt.number_minus_format))
                 /\ strings[4] = Paint(CallConfig.number_plus_format_style.ansi_term_style,
                                       before(a.opt.number_plus_format))
                 /\ strings[5].style = CallConfig.number_plus_style.ansi_term_style
                 /\ strings[6] = Paint(CallConfig.number_plus_format_style.ansi_term_style,
                                       after(a.opt.number_plus_format))
                 /\ a.side = "minus" =>
                       /\ strings[2].string = <<" ", "3", " ", " ">>
                       /\ strings[5].string = <<" ", " ", " ", " ">>
                 /\ a.side = "plus" =>
                       /\ strings[2].string = <<" ", " ", " ", " ">>
                       /\ strings[5].string = <<" ", "1", "2", " ">>
                 /\ a.side = "other" =>
                       /\ strings[2].string = <<" ", "1", " ", " ">>
                       /\ strings[5].string = <<" ", "2", " ", " ">>
            ELSE Len(strings) = content + FillCount

\* a plus line of a flush, the four gutter styles all different
C17_Witness ==
    /\ Painted
    /\ call.args.side = "plus"
    /\ call.args.opt.number_plus_style = "Green"
    /\ Len(call.result.ansi_strings) >= 6
    /\ call.result.ansi_strings[4].string = <<>>
    /\ call.result.ansi_strings[5]
          = Paint(AnsiTermStyle(Color("Green"), NoColor, {}), <<" ", "1", "2", " ">>)
    /\ call.result.ansi_strings[6].string = <<"|", " ">>

\* C15 (as claimed): the background fill applied to a line that already
\* ends with ESC[K ESC[0m gives that line again, ESC[K not repeated
C15_FillStepIdempotent ==
    (call.fn = "extend_background" /\ call.pc = "twice") =>
        call.result.twice = call.result.once

(***************************************************************************)
(* The statements about the lines a flush renders.                         *)
(***************************************************************************)
\* the number of newline characters among tokens
NewlineCount(tokens) ==
    Cardinality({i \in 1..Len(tokens) : tokens[i] = Ch(NL)})

\* C18: a flush that returns appends one newline per line it renders, and
\* each newline is the last character of its line's output: what the flush
\* appended ends with a newline and holds as many newlines as lines
C18_OneTerminatorPerLine ==
    [][(FlushStep /\ aborted' = "no") =>
          /\ NewlineCount(Appended) = Len(minus_lines) + Len(plus_lines)
          /\ Appended[Len(Appended)] = Ch(NL)]_vars

\* two lines, one of them empty, flushed at once
C18_Witness ==
    /\ aborted = "no"
    /\ Len(flushed) = 2
    /\ flushed[1].line = <<NL>>
    /\ minus_lines = <<>> /\ plus_lines = <<>>
    /\ writer = <<>>
    /\ NewlineCount(output_buffer) = 2
    /\ output_buffer[Len(output_buffer)] = Ch(NL)

(***************************************************************************)
(* The statement about get_syntax_style_sections_for_lines.                *)
(***************************************************************************)
\* the state of the call requires syntax colouring
ColoringRequired ==
    LET cfg == CallConfig
        st  == call.args.state
    IN  /\ call.args.opt.theme # "None"
        /\ \/ st = "HunkMinus" /\ (cfg.minus_style.is_syntax_highlighted
                                    \/ cfg.minus_emph_style.is_syntax_highlighted)
           \/ st = "HunkPlus" /\ (cfg.plus_style.is_syntax_highlighted
                                   \/ cfg.plus_emph_style.is_syntax_highlighted)
           \/ st = "HunkZero" /\ cfg.zero_style.is_syntax_highlighted
           \/ st = "HunkHeader"

\* the runs superimposed from syntax and diff carry the diff styles, no
\* foreground replaced
DiffStylesKept(syntax, diff) ==
    LET runs == superimpose_style_sections(syntax, diff, TRUE, null_syntect_style).value
        start(k) == 1 + Len(Flatten([j \in 1..(k - 1) |-> runs[j][2]]))
    IN  /\ runs # <<>>
        /\ \A k \in 1..Len(runs) : runs[k][1] = StyleAt(diff, start(k))

\* C19: when the side does not require syntax colouring the highlighter
\* is not invoked, each line gets the one section (null_syntect_style,
\* line), and the runs rendered for it carry their diff styles unchanged;
\* when it does, the highlighter is invoked once per line, in line order
C19_SyntaxGate ==
    (call.fn = "get_syntax_style_sections_for_lines" /\ call.pc = "done") =>
        LET lines    == call.args.lines
            sections == call.result.line_sections
        IN  /\ Len(sections) = Len(lines)
            /\ IF ColoringRequired
               THEN call.result.highlighted = lines
               ELSE /\ call.result.highlighted = <<>>
                    /\ \A i \in 1..Len(lines) :
                          /\ sections[i] = <<<<null_syntect_style, lines[i]>>>>
                          /\ \A diff \in PartitionsOf(lines[i], PaintDiffStyles) :
                                DiffStylesKept(sections[i], diff)

\* two plus lines and no theme: the plus styles ask for syntax colouring,
\* but the highlighter is not invoked
C19_Witness ==
    /\ call.fn = "get_syntax_style_sections_for_lines"
    /\ call.pc = "done"
    /\ call.args.state = "HunkPlus"
    /\ call.args.opt.theme = "None"
    /\ Len(call.args.lines) = 2
    /\ call.result.highlighted = <<>>
    /\ call.result.line_sections[1] = <<<<null_syntect_style, call.args.lines[1]>>>>

(***************************************************************************)
(* The statement about get_diff_style_sections.                            *)
(***************************************************************************)
\* the sections of one side after the call, raw being what infer_edits
\* returned for the side
NonEmphRewritten(raw, out, non_emph_style, emph_style) ==
    /\ Len(out) = Len(raw)
    /\ \A l \in 1..Len(raw) :
          IF /\ non_emph_style # emph_style
             /\ Cardinality({raw[l][i][1] : i \in 1..Len(raw[l])}) >= 2
          THEN /\ Len(out[l]) = Len(raw[l])
               /\ \A i \in 1..Len(raw[l]) :
                     /\ out[l][i][2] = raw[l][i][2]
                     /\ raw[l][i][1].is_emph => out[l][i][1] = raw[l][i][1]
                     /\ ~raw[l][i][1].is_emph => out[l][i][1] = non_emph_style
          ELSE out[l] = raw[l]

\* C20: on a side whose non-emph style differs from its emph style, a line
\* with two or more distinct diff styles has its non-emph sections set to
\* the non-emph style, texts, order and emph sections unchanged; every
\* other line is as infer_edits returned it
C20_NonEmphRewrite ==
    (call.fn = "get_diff_style_sections" /\ call.pc = "done") =>
        /\ NonEmphRewritten(call.args.edits[1], call.result[1],
                            call.args.minus_non_emph_style, MinusEmphStyle)
        /\ NonEmphRewritten(call.args.edits[2], call.result[2],
                            call.args.plus_non_emph_style, PlusEmphStyle)

\* a minus line with an emph section next to a minus line of one style in
\* two sections: the first is rewritten, the second is not
C20_Witness ==
    /\ call.fn = "get_diff_style_sections"
    /\ call.pc = "done"
    /\ call.args.minus_non_emph_style = MinusNonEmphStyle
    /\ Len(call.args.edits[1]) = 2
    /\ Len(call.args.edits[1][1]) = 3
    /\ Len(call.args.edits[1][2]) = 2
    /\ call.result[1][1][1][1] = MinusNonEmphStyle
    /\ call.result[1][1][2][1] = MinusEmphStyle
    /\ call.result[1][2] = call.args.edits[1][2]
    /\ call.result[1][2][1][1] = MinusStyle


(***************************************************************************)
(* C21: the runs of superimpose_style_sections for one line.               *)
(***************************************************************************)
\* C21: for two partitions of one line, no run is returned exactly when
\* the line has no characters, and every returned run but the last has a
\* non-empty text
C21_RunsNonEmpty ==
    (s_pc = "done" /\ SameText) =>
        /\ ~superimposed.panicked
        /\ (Runs = <<>>) <=> (TextOf(sections_1) = <<>>)
        /\ \A k \in 1..(Len(Runs) - 1) : Runs[k][2] # <<>>

\* a line whose terminator has a style pair of its own: two runs, the last
\* one left empty
C21_Witness ==
    /\ s_pc = "done" /\ SameText
    /\ TextOf(sections_1) = <<"a", NL>>
    /\ Len(Runs) = 2
    /\ Runs[1][2] = <<"a">>
    /\ Runs[2][2] = <<>>


(***************************************************************************)
(* C22: the width policy.                                                  *)
(***************************************************************************)
ConfigReturned == call.fn = "get_config" /\ call.pc = "done"

\* terminal_width - 1, the value a well defined subtraction leaves
OneLess(columns) == IF columns = 0 THEN 0 ELSE columns - 1

\* the digits of a text that may start with a plus sign
Unsigned(text) == IF text # <<>> /\ Head(text) = "+" THEN Tail(text) ELSE text

\* the text is a non-negative integer written in decimal digits
IsNumeric(text) ==
    Unsigned(text) # <<>> /\ \A i \in 1..Len(Unsigned(text)) : IsDigit(Unsigned(text)[i])

\* min(w, terminal_width - 1) for the number w the text writes; a w of
\* more than MaxParsedDigits digits is above every column count
MinWithText(text, columns) ==
    IF Len(SignificantDigits(Unsigned(text))) <= MaxParsedDigits
    THEN Min(DecimalValue(Unsigned(text)), OneLess(columns))
    ELSE OneLess(columns)

\* C22 (as claimed): --width=variable gives Variable and no extension; a
\* numeric width w gives Fixed(min(w, terminal_width - 1)) and the
\* extension; no width gives Fixed(terminal_width - 1) and the extension;
\* any other width ends the process with status 1; and the subtraction is
\* well defined for every column count, 0 included
C22_WidthPolicy ==
    ConfigReturned =>
        LET width   == call.args.width
            columns == call.args.columns
            cfg     == call.result.config
        IN  /\ cfg.outcome # "panic"
            /\ width = None =>
                   /\ cfg.outcome = "ok"
                   /\ cfg.decorations_width = <<"Fixed", OneLess(columns)>>
                   /\ cfg.background_color_extends_to_terminal_width
            /\ width = Some(VariableWidth) =>
                   /\ cfg.outcome = "ok"
                   /\ cfg.decorations_width = <<"Variable">>
                   /\ ~cfg.background_color_extends_to_terminal_width
            /\ (width # None /\ IsNumeric(width[1])) =>
                   /\ cfg.outcome = "ok"
                   /\ cfg.decorations_width = <<"Fixed", MinWithText(width[1], columns)>>
                   /\ cfg.background_color_extends_to_terminal_width
            /\ (width # None /\ width # Some(VariableWidth) /\ ~IsNumeric(width[1])) =>
                   cfg.outcome = "exit 1"


(***************************************************************************)
(* C23, C24, C29, C30: set_options.                                        *)
(***************************************************************************)
SetOptionsReturned == call.fn = "set_options" /\ call.pc = "done"

Supplied(option_name) == option_name \in call.args.arg_matches

\* the value the git config handed to the call holds for the key
InConfig(key) ==
    IF call.args.git_config # None /\ key \in DOMAIN call.args.git_config[1]
    THEN Some(call.args.git_config[1][key]) ELSE None

\* the value the builtin preset of that name gives the option
InBuiltinPreset(preset, option_name) ==
    IF preset \in DOMAIN make_builtin_presets
       /\ option_name \in DOMAIN make_builtin_presets[preset]
    THEN Some(make_builtin_presets[preset][option_name]) ELSE None

\* the presets listed in opt.presets when the call returned, in lower
\* case, left to right
ListedPresets ==
    IF call.result.presets = None THEN <<>>
    ELSE split_whitespace(to_lowercase(call.result.presets[1]))

\* the places searched for the option with the presets words listed, in
\* the order of the search: for each listed preset from the right its
\* section of the git config and then the builtin preset, and last the
\* main section
PlacesSearched(option_name, words) ==
    Flatten([k \in 1..Len(words) |->
               <<InConfig(<<"delta", words[Len(words) + 1 - k], option_name>>),
                 InBuiltinPreset(words[Len(words) + 1 - k], option_name)>>])
    \o <<InConfig(<<"delta", option_name>>)>>

\* the first value among the places, if any
FirstOf(places) ==
    IF \E i \in 1..Len(places) : places[i] # None
    THEN places[CHOOSE i \in 1..Len(places) :
                   /\ places[i] # None
                   /\ \A j \in 1..(i - 1) : places[j] = None]
    ELSE None

\* the first value found in the search for the option, if any
FirstFound(option_name) == FirstOf(PlacesSearched(option_name, ListedPresets))

\* the value the search gives the option: the first found, or else
\* otherwise
FoundOr(found, otherwise) == IF found # None THEN found[1] ELSE otherwise

\* value mod 2^64 in four digits of base 2^16, lowest first, for a value
\* between -2^16 and 2^16
ModTwoTo64(value) ==
    IF value >= 0 THEN <<value, 0, 0, 0>>
    ELSE <<65536 + value, 65535, 65535, 65535>>

\* what whitespace-error-style falls back to
WhitespaceDefault ==
    IF InConfig(<<"color.diff.whitespace">>) # None
    THEN InConfig(<<"color.diff.whitespace">>)[1] ELSE "magenta reverse"

\* the value of the option in opt, as it is written in a git config or a
\* builtin preset, is value
HasValue(o, option_name, value) ==
    Field(o, option_name) =
        IF option_name = "tabs" THEN ModTwoTo64(value) ELSE value

\* C23: an option given on the command line is left as it is; presets is
\* looked up first; any other option that was not given gets the first
\* value found going through the listed presets right to left (the
\* preset's section of the git config, then the builtin preset) and then
\* the main section, and keeps its value when nothing is found
C23_LookupOrder ==
    (SetOptionsReturned /\ ~call.args.opt.no_gitconfig) =>
        /\ \A n \in call.args.arg_matches :
              Field(call.result, n) = Field(call.args.opt, n)
        /\ ~Supplied("presets") =>
              call.result.presets =
                  IF InConfig(<<"delta", "presets">>) # None
                  THEN InConfig(<<"delta", "presets">>) ELSE call.args.opt.presets
        /\ ~Supplied("minus-style") =>
              call.result.minus_style =
                  FoundOr(FirstFound("minus-style"), call.args.opt.minus_style)
        /\ ~Supplied("tabs") =>
              IF FirstFound("tabs") # None
              THEN HasValue(call.result, "tabs", FirstFound("tabs")[1])
              ELSE call.result.tab_width = call.args.opt.tab_width
        /\ ~Supplied("whitespace-error-style") =>
              call.result.whitespace_error_style =
                  FoundOr(FirstFound("whitespace-error-style"), WhitespaceDefault)

\* presets comes from the git config and lists a and B; the minus style
\* is that of the builtin preset b, though the section of a and the main
\* section have one too
C23_Witness ==
    /\ SetOptionsReturned /\ ~call.args.opt.no_gitconfig
    /\ call.args.arg_matches = {}
    /\ InConfig(<<"delta", "presets">>) = Some(<<"a", " ", "B">>)
    /\ InConfig(<<"delta", <<"a">>, "minus-style">>) # None
    /\ InConfig(<<"delta", "minus-style">>) # None
    /\ call.result.presets = Some(<<"a", " ", "B">>)
    /\ call.result.minus_style = "builtin b"

\* the options the builtin presets of the model give a value
PresetOptions == {"minus-style", "tabs"}

\* a listed preset has the option in its builtin preset
SomeBuiltinValue(option_name) ==
    \E k \in 1..Len(ListedPresets) :
        InBuiltinPreset(ListedPresets[k], option_name) # None

\* a listed preset has the option in its section of the git config
SomeSectionValue(option_name) ==
    \E k \in 1..Len(ListedPresets) :
        InConfig(<<"delta", ListedPresets[k], option_name>>) # None

\* C24 (as claimed): for an option that was not given on the command line,
\* a value in the main section delta.<option> is taken before the value
\* of a builtin preset, whichever presets are listed
C24_MainSectionBeforeBuiltinPresets ==
    (SetOptionsReturned /\ ~call.args.opt.no_gitconfig) =>
        \A n \in PresetOptions :
            (/\ ~Supplied(n)
             /\ InConfig(<<"delta", n>>) # None
             /\ ~SomeSectionValue(n)) =>
                HasValue(call.result, n, InConfig(<<"delta", n>>)[1])

\* C24 (amended): for an option that was not given on the command line, the
\* value of the main section delta.<option> is taken only when no listed
\* preset has the option, in its section of the git config or as a builtin
\* preset; the value of a builtin preset of a listed preset is taken
\* before it
C24_BuiltinPresetsBeforeMainSection ==
    (SetOptionsReturned /\ ~call.args.opt.no_gitconfig) =>
        \A n \in PresetOptions :
            (~Supplied(n) /\ InConfig(<<"delta", n>>) # None) =>
                /\ (SomeBuiltinValue(n) \/ SomeSectionValue(n)) =>
                       ~HasValue(call.result, n, InConfig(<<"delta", n>>)[1])
                /\ (SomeBuiltinValue(n) /\ ~SomeSectionValue(n)) =>
                       \E k \in 1..Len(ListedPresets) :
                          /\ InBuiltinPreset(ListedPresets[k], n) # None
                          /\ HasValue(call.result, n,
                                      InBuiltinPreset(ListedPresets[k], n)[1])
                /\ (~SomeBuiltinValue(n) /\ ~SomeSectionValue(n)) =>
                       HasValue(call.result, n, InConfig(<<"delta", n>>)[1])

\* --presets a on the command line and a minus style in the main section:
\* the minus style is that of the builtin preset a
C24_Witness ==
    /\ SetOptionsReturned /\ ~call.args.opt.no_gitconfig
    /\ call.args.arg_matches = {"presets"}
    /\ call.args.opt.presets = Some(<<"a">>)
    /\ InConfig(<<"delta", "minus-style">>) = Some("main")
    /\ ~SomeSectionValue("minus-style")
    /\ call.result.minus_style = "builtin a"

\* C29: with no_gitconfig set, set_options leaves every field of opt as it
\* was, whatever the git config and the presets are; without it, a
\* whitespace-error-style that was not given on the command line is the
\* value of the general lookup if that finds one, and else that of
\* color.diff.whitespace or "magenta reverse"
C29_NoGitconfigChangesNothing ==
    SetOptionsReturned =>
        /\ call.args.opt.no_gitconfig => call.result = call.args.opt
        /\ (~call.args.opt.no_gitconfig /\ ~Supplied("whitespace-error-style")) =>
              \/ /\ FirstFound("whitespace-error-style") # None
                 /\ call.result.whitespace_error_style =
                       FirstFound("whitespace-error-style")[1]
              \/ /\ FirstFound("whitespace-error-style") = None
                 /\ call.result.whitespace_error_style = WhitespaceDefault

\* no_gitconfig with --presets a and a git config that has a minus style
\* and color.diff.whitespace: nothing is applied
C29_Witness ==
    /\ SetOptionsReturned
    /\ call.args.opt.no_gitconfig
    /\ call.args.arg_matches = {"presets"}
    /\ call.args.opt.presets = Some(<<"a">>)
    /\ InConfig(<<"delta", "minus-style">>) # None
    /\ InConfig(<<"color.diff.whitespace">>) # None
    /\ call.result.minus_style = "default"
    /\ call.result.whitespace_error_style = "auto"
    /\ call.result.tab_width = <<4, 0, 0, 0>>

\* the text writes a number: digits, with at most one point among them
WritesNumber(text) ==
    \E k \in 0..Len(text) :
        /\ \A i \in 1..k : IsDigit(text[i])
        /\ \/ k = Len(text) /\ k >= 1
           \/ /\ k < Len(text)
              /\ text[k + 1] = "."
              /\ \A i \in (k + 2)..Len(text) : IsDigit(text[i])
              /\ Len(text) >= 2

\* C30: a tab width found through the presets or the git config is the
\* integer found, taken mod 2^64: the integer itself when it is not
\* negative; a max-line-distance whose text found does not write a number
\* leaves the option as it was
C30_IntegerConversion ==
    (SetOptionsReturned /\ ~call.args.opt.no_gitconfig) =>
        /\ (~Supplied("tabs") /\ FirstFound("tabs") # None) =>
              /\ call.result.tab_width = ModTwoTo64(FirstFound("tabs")[1])
              /\ \A i \in 1..4 : call.result.tab_width[i] \in 0..65535
        /\ (/\ ~Supplied("max-line-distance")
            /\ FirstFound("max-line-distance") # None
            /\ ~WritesNumber(FirstFound("max-line-distance")[1])) =>
              call.result.max_line_distance = call.args.opt.max_line_distance

\* tabs = -1 in the main section: the tab width is 2^64 - 1
C30_Witness ==
    /\ SetOptionsReturned /\ ~call.args.opt.no_gitconfig
    /\ ~Supplied("tabs")
    /\ FirstFound("tabs") = Some(0 - 1)
    /\ call.result.tab_width = <<65535, 65535, 65535, 65535>>


(***************************************************************************)
(* C25: the lookup in the section of the theme.                            *)
(***************************************************************************)
\* the value in the git config of the call, or else otherwise
ConfigValueOr(key, otherwise) ==
    IF call.args.git_config # None /\ key \in DOMAIN call.args.git_config[1]
    THEN call.args.git_config[1][key] ELSE otherwise

\* the value of the section of the theme, then that of the main section,
\* then the default
ThemeThenMain(opt_name, default) ==
    IF call.args.opt.theme # None
    THEN ConfigValueOr(<<"delta", call.args.opt.theme[1], opt_name>>,
                       ConfigValueOr(<<"delta", opt_name>>, default))
    ELSE ConfigValueOr(<<"delta", opt_name>>, default)

\* the option was given on the command line, as far as the macro is told
KnownSupplied(opt_name) ==
    call.args.arg_matches # None /\ opt_name \in call.args.arg_matches[1]

\* C25: the macros keep an option given on the command line; any other
\* option, and every option when there are no argument matches, gets the
\* value of delta.<theme>.<option> if a theme is set and the key exists,
\* else that of delta.<option> if it exists, else the default, which for
\* set_delta_options! is the value the option has; the theme is left as it
\* is; make_git_config_keys_for_delta gives the keys in that order and
\* value_from_git_config the value of the first key that exists, None
\* without a git config
C25_ThemeSectionLookup ==
    /\ (call.fn = "set_delta_options!" /\ call.pc = "done") =>
          /\ call.result.theme = call.args.opt.theme
          /\ \A n \in ThemeOptionNames :
                ThemeField(call.result, n) =
                    IF KnownSupplied(n) THEN ThemeField(call.args.opt, n)
                    ELSE ThemeThenMain(n, ThemeField(call.args.opt, n))
    /\ (call.fn = "set_options!" /\ call.pc = "done") =>
          /\ call.result.theme = call.args.opt.theme
          /\ \A n \in ThemeOptionNames :
                ThemeField(call.result, n) =
                    IF KnownSupplied(n) THEN ThemeField(call.args.opt, n)
                    ELSE ThemeThenMain(n, call.args.default)
    /\ (call.fn = "make_git_config_keys_for_delta" /\ call.pc = "done") =>
          IF call.args.theme # None
          THEN /\ Len(call.result) = 2
               /\ call.result[1] = <<"delta", call.args.theme[1], call.args.key>>
               /\ call.result[2] = <<"delta", call.args.key>>
          ELSE /\ Len(call.result) = 1
               /\ call.result[1] = <<"delta", call.args.key>>
    /\ (call.fn = "value_from_git_config" /\ call.pc = "done") =>
          IF call.args.git_config = None THEN call.result = None
          ELSE \/ /\ call.result = None
                  /\ \A i \in 1..Len(call.args.keys) :
                        call.args.keys[i] \notin DOMAIN call.args.git_config[1]
               \/ \E i \in 1..Len(call.args.keys) :
                     /\ call.args.keys[i] \in DOMAIN call.args.git_config[1]
                     /\ \A j \in 1..(i - 1) :
                           call.args.keys[j] \notin DOMAIN call.args.git_config[1]
                     /\ call.result = Some(call.args.git_config[1][call.args.keys[i]])

\* set_delta_options! without argument matches, theme t, a git config
\* with the plus style in the section of t and in the main section and
\* the zero style in the main section alone
C25_Witness ==
    /\ call.fn = "set_delta_options!" /\ call.pc = "done"
    /\ call.args.arg_matches = None
    /\ call.args.opt.theme = Some("t")
    /\ call.args.git_config # None
    /\ DOMAIN call.args.git_config[1] =
          {<<"delta", "t", "plus-style">>, <<"delta", "plus-style">>,
           <<"delta", "zero-style">>}
    /\ call.result.plus_style = "theme t plus"
    /\ call.result.zero_style = "main zero"


(***************************************************************************)
(* C26: should_compute_syntax_highlighting in every state.                 *)
(***************************************************************************)
\* C26: without a theme should_compute_syntax_highlighting returns false
\* in every state, the states outside HunkMinus, HunkZero, HunkPlus and
\* HunkHeader too, and does not panic; with a theme it returns true for
\* HunkHeader, is_syntax_highlighted of zero_style for HunkZero, that of
\* the side's style or of its emph style for HunkMinus and HunkPlus,
\* whatever the side's non-emph style has, and panics in any other state
C26_DefinedForHunkStates ==
    (call.fn = "should_compute_syntax_highlighting" /\ call.pc = "done") =>
        LET highlighted == call.args.highlighted
            state       == call.args.state
        IN  IF call.args.config.theme = "None"
            THEN ~call.result.panicked /\ call.result.returned = Some(FALSE)
            ELSE CASE state = "HunkHeader" ->
                          ~call.result.panicked /\ call.result.returned = Some(TRUE)
                   [] state = "HunkZero" ->
                          /\ ~call.result.panicked
                          /\ call.result.returned = Some("zero_style" \in highlighted)
                   [] state = "HunkMinus" ->
                          /\ ~call.result.panicked
                          /\ call.result.returned =
                                Some("minus_style" \in highlighted
                                     \/ "minus_emph_style" \in highlighted)
                   [] state = "HunkPlus" ->
                          /\ ~call.result.panicked
                          /\ call.result.returned =
                                Some("plus_style" \in highlighted
                                     \/ "plus_emph_style" \in highlighted)
                   [] OTHER -> call.result.panicked

\* a call in the state CommitMeta with a theme panics
C26_Witness ==
    /\ call.fn = "should_compute_syntax_highlighting" /\ call.pc = "done"
    /\ call.args.state = "CommitMeta"
    /\ call.args.config.theme = "Some"
    /\ call.result.panicked


(***************************************************************************)
(* C27: emit and a failing write.                                          *)
(***************************************************************************)
\* the line buffers and the line counters stay as they are in the step
LinesAndCountersKept ==
    /\ minus_lines' = minus_lines
    /\ plus_lines' = plus_lines
    /\ minus_line_number' = minus_line_number
    /\ plus_line_number' = plus_line_number

\* C27: an emit whose write fails leaves the output buffer as it is, and an
\* emit whose write succeeds writes the whole output buffer, so the emit
\* after a failed one writes the content the failed one was called with;
\* neither changes the line buffers or the line counters
C27_FailedEmitKeepsData ==
    [][/\ (write_failed' /\ ~write_failed) =>
             /\ output_buffer' = output_buffer
             /\ writer' = writer
             /\ LinesAndCountersKept
       /\ writer' # writer =>
             /\ writer' = writer \o output_buffer
             /\ write_failed' = write_failed
             /\ LinesAndCountersKept]_vars

\* a minus line and a plus line were painted, a write has failed and
\* nothing has reached the sink: the output buffer holds the two lines
C27_Witness ==
    /\ write_failed
    /\ aborted = "no"
    /\ writer = <<>>
    /\ Len(flushed) = 2
    /\ minus_lines = <<>> /\ plus_lines = <<>>
    /\ Len(VisibleLines(output_buffer)) = 2
    /\ minus_line_number = 1 /\ plus_line_number = 1


(***************************************************************************)
(* C28: the lines a flush renders and the lines it counts.                 *)
(***************************************************************************)
SeveralLinesPainted == call.fn = "paint_lines, several lines" /\ call.pc = "done"

BufferedLinesPainted == call.fn = "paint_buffered_lines" /\ call.pc = "done"

\* the smallest of the three numbers of entries handed to paint_lines
FewestEntries ==
    Min(Len(call.args.syntax_style_sections),
        Min(Len(call.args.diff_style_sections), Len(call.args.line_number_sections)))

\* the lines paint_lines renders for a side with the lines buffered, given
\* the diff partitions: none for an empty side, for which it is not called
RenderedOf(lines, partitions) ==
    IF lines = <<>> THEN 0 ELSE Min(Len(lines), Len(partitions))

\* the flush returned and rendered as many lines as it counted
RenderedAllCounted ==
    /\ call.result.painted.aborted = "no"
    /\ NewlineCount(call.result.painted.out) =
          Len(call.args.minus_lines) + Len(call.args.plus_lines)

\* the panics of the model come from a number format without one
\* placeholder, met when line numbers are shown
FormatPanicPossible ==
    /\ call.args.opt.show_line_numbers
    /\ call.args.opt.number_minus_format = BadFormat

\* the counters are advanced by the numbers of buffered lines
CountersAdvancedByBuffered ==
    /\ call.result.minus_line_number =
          call.args.minus_line_number + Len(call.args.minus_lines)
    /\ call.result.plus_line_number =
          call.args.plus_line_number + Len(call.args.plus_lines)

\* C28: paint_lines renders the first min(number of syntax
\* partitions, number of diff partitions, number of line-number entries)
\* lines and does with the surplus entries as if they were not there; a
\* flush advances each counter by the number of buffered lines and renders,
\* for each side, the lines that have a diff partition; so it renders as
\* many lines as it counted if and only if the edit inference returned a
\* diff partition for each buffered line (partitions beyond the buffered
\* lines are surplus entries like any others), and it raises no error when
\* there are fewer
C28_AllRenderedIffPartitionForEachLine ==
    /\ SeveralLinesPainted =>
          /\ call.result =
                paint_lines(SubSeq(call.args.syntax_style_sections, 1, FewestEntries),
                            SubSeq(call.args.diff_style_sections, 1, FewestEntries),
                            SubSeq(call.args.line_number_sections, 1, FewestEntries),
                            get_config(call.args.opt, TRUE),
                            get_config(call.args.opt, TRUE).minus_line_marker,
                            MinusStyle, MinusNonEmphStyle, None)
          /\ call.result.aborted = "no" =>
                NewlineCount(call.result.out) = FewestEntries
          /\ call.result.aborted # "no" => FormatPanicPossible
    /\ BufferedLinesPainted =>
          /\ CountersAdvancedByBuffered
          /\ call.result.painted.aborted = "no" =>
                NewlineCount(call.result.painted.out) =
                    RenderedOf(call.args.minus_lines, call.args.edits[1])
                    + RenderedOf(call.args.plus_lines, call.args.edits[2])
          /\ call.result.painted.aborted = "no" =>
                (RenderedAllCounted <=>
                    /\ Len(call.args.edits[1]) >= Len(call.args.minus_lines)
                    /\ Len(call.args.edits[2]) >= Len(call.args.plus_lines))
          /\ call.result.painted.aborted # "no" => FormatPanicPossible

\* two buffered minus lines and one diff partition: one line is rendered,
\* the minus counter is advanced by two, and the flush returns
C28_Witness ==
    /\ BufferedLinesPainted
    /\ Len(call.args.minus_lines) = 2
    /\ call.args.plus_lines = <<>>
    /\ Len(call.args.edits[1]) = 1
    /\ call.result.painted.aborted = "no"
    /\ NewlineCount(call.result.painted.out) = 1
    /\ call.result.minus_line_number = call.args.minus_line_number + 2

=============================================================================
